---- MODULE Spec2Model ----
(***************************************************************************)
(* A model of the Dokan adapter of pyfilesystem_dokan: the dispatcher      *)
(* callbacks of FSOperations (src/dokan/__init__.py), the handle registry, *)
(* the pending-delete set, the byte-range lock table and the post-close    *)
(* size table (PathMap, src/fs_legacy.py).                                 *)
(*                                                                         *)
(* Strings are sequences of one-character strings, so that the conversion  *)
(* between host paths (backslashes) and VFS paths (forward slashes) is     *)
(* computed and not assumed.  NT status codes are signed 32-bit values.    *)
(***************************************************************************)
EXTENDS Integers, Sequences, FiniteSets, TLC

(* ------------------------------ bounds -------------------------------- *)
\* number of handle integers the session may allocate
MaxHandles == 2
\* number of stream objects the VFS may hand out in one behaviour
MaxStreams == 3
\* largest byte offset the driver passes; lengths go up to MaxOff + 1
MaxOff == 1
\* the locks one path holds at most
MaxLocks == 2
\* the callbacks that can be inside timeout_protect at once, finished records still
\* queued included
MaxRecords == 2
\* the calls of a wrapped function one behaviour records
MaxCalls == 2
\* the longest host path the normalizer is studied on
MaxPathLen == 4

(* ------------------------ program constants --------------------------- *)
MinimumFileHandler == 100

\* _TIMEOUT_PROTECT_WAIT_TIME, 240 seconds, in clock ticks of 120 seconds
TIMEOUT_PROTECT_WAIT_TIME == 2

FILE_SUPERSEDE == 0
FILE_OPEN == 1
FILE_CREATE == 2
FILE_OPEN_IF == 3
FILE_OVERWRITE == 4
FILE_OVERWRITE_IF == 5

FILE_SUPERSEDED == 0
FILE_OVERWRITTEN == 3
FILE_DOES_NOT_EXIST == 5
ERROR_ALREADY_EXISTS == 183

STATUS_SUCCESS == 0
\* 0xC0000022, 0xC0000055, 0xC0000101, 0xC000002A, 0xC0000034 as 32-bit NTSTATUS
STATUS_ACCESS_DENIED == -1073741790
STATUS_LOCK_NOT_GRANTED == -1073741739
STATUS_DIRECTORY_NOT_EMPTY == -1073741567
STATUS_NOT_LOCKED == -1073741782
STATUS_OBJECT_NAME_NOT_FOUND == -1073741772
STATUS_OBJECT_NAME_COLLISION == -1073741771
STATUS_NOT_SUPPORTED == -1073741637

\* errno values raised by convert_fs_errors
ENOENT == 2
EACCES == 13
EFAULT == 14
EEXIST == 17
EINVAL == 22
ENOTEMPTY == 41
ENOSYS == 40
ENOSPC == 28
ENETDOWN == 10050
\* the code fs_legacy passes to WindowsError for a locked resource
ERROR_SHARING_VIOLATION == 32

\* a DWORD counts modulo 2^32; the study of the time conversions scales it to 2^3,
\* and the 100 ns between 1601 and 1970 (116444736000000000) to 5
DWORD == 8
FILETIME_UNIX_EPOCH == 5

Dispositions ==
  {FILE_SUPERSEDE, FILE_OPEN, FILE_CREATE, FILE_OPEN_IF, FILE_OVERWRITE, FILE_OVERWRITE_IF}

\* DesiredAccess and CreateOptions are bit masks; a mask is the set of its bits.
DataAccessBits == {"FILE_READ_DATA", "FILE_WRITE_DATA", "FILE_APPEND_DATA", "FILE_EXECUTE"}
AccessMasks == { {}, {"FILE_READ_ATTRIBUTES"}, {"FILE_READ_DATA"} }
OptionMasks == { {}, {"FILE_DELETE_ON_CLOSE"} }

(* ------------------------------ strings ------------------------------- *)
BS == "\\"
SL == "/"

\* str.replace('\\', '/')
ReplaceBS(s) == [i \in DOMAIN s |-> IF s[i] = BS THEN SL ELSE s[i]]

\* str.split('/')
RECURSIVE SplitSl(_)
SplitSl(s) ==
  IF \A i \in DOMAIN s : s[i] # SL THEN <<s>>
  ELSE LET k == CHOOSE i \in DOMAIN s : s[i] = SL /\ \A j \in 1..(i - 1) : s[j] # SL
       IN  <<SubSeq(s, 1, k - 1)>> \o SplitSl(SubSeq(s, k + 1, Len(s)))

\* '/'.join(components)
RECURSIVE JoinSl(_)
JoinSl(cs) ==
  IF cs = <<>> THEN <<>>
  ELSE IF Len(cs) = 1 THEN cs[1]
  ELSE cs[1] \o <<SL>> \o JoinSl(Tail(cs))

\* str.rstrip('/') and str.lstrip('/')
RECURSIVE RStripSl(_)
RStripSl(s) == IF s # <<>> /\ s[Len(s)] = SL THEN RStripSl(SubSeq(s, 1, Len(s) - 1)) ELSE s

RECURSIVE LStripSl(_)
LStripSl(s) == IF s # <<>> /\ s[1] = SL THEN LStripSl(Tail(s)) ELSE s

DOT == <<".">>
DOTDOT == <<".", ".">>

\* fs.path._requires_normalization: a component "." or "..", or "//"
RequiresNormalization(s) ==
  \/ \E i \in 1..(Len(s) - 1) : s[i] = SL /\ s[i + 1] = SL
  \/ \E c \in {SplitSl(s)[i] : i \in DOMAIN SplitSl(s)} : c \in {DOT, DOTDOT}

\* the component loop of fs.path.normpath; a back reference above the root
\* (IllegalBackReference) leaves the marker component <<"!">>
RECURSIVE NormComponents(_, _)
NormComponents(cs, acc) ==
  IF cs = <<>> THEN acc
  ELSE LET c == Head(cs) IN
       IF c = DOTDOT
         THEN IF acc = <<>> THEN <<(<<"!">>)>>
              ELSE NormComponents(Tail(cs), SubSeq(acc, 1, Len(acc) - 1))
       ELSE IF c \in {<<>>, DOT} THEN NormComponents(Tail(cs), acc)
       ELSE NormComponents(Tail(cs), Append(acc, c))

\* fs.path.normpath
normpath(path) ==
  IF path \in {<<>>, <<SL>>} THEN path
  ELSE IF ~RequiresNormalization(path) THEN RStripSl(path)
  ELSE (IF path[1] = SL THEN <<SL>> ELSE <<>>) \o JoinSl(NormComponents(SplitSl(path), <<>>))

\* fs.path.relpath, fs.path.abspath
relpath(path) == LStripSl(path)
abspath(path) == IF path # <<>> /\ path[1] = SL THEN path ELSE <<SL>> \o path

\* fs.path.iteratepath: the list of components of a path
iteratepath(path) ==
  LET r == relpath(normpath(path)) IN IF r = <<>> THEN <<>> ELSE SplitSl(r)

\* fs.path.combine
combine(path1, path2) ==
  IF path1 = <<>> THEN LStripSl(path2)
  ELSE RStripSl(path1) \o <<SL>> \o LStripSl(path2)

\* fs.path.recursepath, as the set of the paths it lists
recursepath(path) ==
  IF path \in {<<>>, <<SL>>} THEN {<<SL>>}
  ELSE LET cs == iteratepath(abspath(normpath(path)))
       IN  {<<SL>>} \cup {<<SL>> \o JoinSl(SubSeq(cs, 1, k)) : k \in 1..Len(cs)}

\* fs.path.join of a path and a name
join(path, name) ==
  LET joined == normpath(path \o <<SL>> \o name)
  IN  IF path # <<>> /\ path[1] = SL THEN abspath(joined) ELSE joined

\* the normalizer without the replacement of the backslashes
dokanpath2pyfs_raw(FileName) == normpath(FileName)
\* FSOperations._dokanpath2pyfs
dokanpath2pyfs(FileName) == normpath(ReplaceBS(FileName))

\* the host paths the driver passes: \a, \d, \d\a
HostA == <<BS, "a">>
HostD == <<BS, "d">>
HostDA == <<BS, "d", BS, "a">>
HostPaths == {HostA, HostD, HostDA}
Names == {<<"a">>, <<"d">>}

(* ------------------------- the VFS backend ---------------------------- *)
\* A VFS state: the directories (the root <<>> among them) and the files with
\* their bytes, keyed by the list of path components.
Parent(k) == SubSeq(k, 1, Len(k) - 1)

FsIsDir(fs, path) == iteratepath(path) \in fs.dirs
FsIsFile(fs, path) == iteratepath(path) \in DOMAIN fs.files
FsExists(fs, path) == FsIsDir(fs, path) \/ FsIsFile(fs, path)

\* remove key k from the domain of function f
Without(f, k) == [x \in (DOMAIN f) \ {k} |-> f[x]]
\* f with f[k] = v, k added to the domain when missing
With(f, k, v) == [x \in (DOMAIN f) \cup {k} |-> IF x = k THEN v ELSE f[x]]

\* fs.open(path, mode): the error kind it raises ("none": it returns a stream)
FsOpenErr(fs, path, mode) ==
  LET k == iteratepath(path) IN
  IF k \in fs.dirs THEN "ResourceInvalid"
  ELSE IF mode = "r+b" THEN (IF k \in DOMAIN fs.files THEN "none" ELSE "ResourceNotFound")
  ELSE IF k = <<>> \/ Parent(k) \notin fs.dirs THEN "ResourceNotFound"
  ELSE "none"

\* fs.open(path, mode): the VFS after a successful open (w+b creates or truncates)
FsOpen(fs, path, mode) ==
  IF mode = "r+b" THEN fs
  ELSE [fs EXCEPT !.files = With(fs.files, iteratepath(path), <<>>)]

\* fs.getinfo(path, namespaces=['basic','details']): the error kind it raises
FsGetinfoErr(fs, path) == IF FsExists(fs, path) THEN "none" ELSE "ResourceNotFound"
\* the "size" of the details namespace: the length of a file, nothing for a directory
FsGetsize(fs, path) == IF FsIsFile(fs, path) THEN Len(fs.files[iteratepath(path)]) ELSE 0

\* fs.makedir(path)
FsMakedirErr(fs, path) ==
  LET k == iteratepath(path) IN
  IF k \in fs.dirs \/ k \in DOMAIN fs.files THEN "FSError"
  ELSE IF Parent(k) \notin fs.dirs THEN "ResourceNotFound"
  ELSE "none"

FsMakedir(fs, path) == [fs EXCEPT !.dirs = fs.dirs \cup {iteratepath(path)}]

\* fs.listdir(path): the names of the children
FsListdirErr(fs, path) ==
  LET k == iteratepath(path) IN
  IF k \in fs.dirs THEN "none"
  ELSE IF k \in DOMAIN fs.files THEN "ResourceInvalid"
  ELSE "ResourceNotFound"

FsListdir(fs, path) ==
  LET k == iteratepath(path) IN
  {n \in Names : Append(k, n) \in fs.dirs \cup DOMAIN fs.files}

\* fs.remove(path)
FsRemoveErr(fs, path) ==
  LET k == iteratepath(path) IN
  IF k \in DOMAIN fs.files THEN "none"
  ELSE IF k \in fs.dirs THEN "ResourceInvalid"
  ELSE "ResourceNotFound"

FsRemove(fs, path) == [fs EXCEPT !.files = Without(fs.files, iteratepath(path))]

\* fs.removedir(path)
FsRemovedirErr(fs, path) ==
  LET k == iteratepath(path) IN
  IF k = <<>> THEN "FSError"
  ELSE IF k \in DOMAIN fs.files THEN "ResourceInvalid"
  ELSE IF k \notin fs.dirs THEN "ResourceNotFound"
  ELSE IF FsListdir(fs, path) # {} THEN "DirectoryNotEmpty"
  ELSE "none"

FsRemovedir(fs, path) == [fs EXCEPT !.dirs = fs.dirs \ {iteratepath(path)}]

\* move(src, dst, overwrite=True): the error it raises, "none" for success
FsMoveErr(fs, src, dst) ==
  IF ~FsExists(fs, src) THEN "ResourceNotFound"
  ELSE IF FsIsDir(fs, src) THEN "FileExpected"
  ELSE IF ~FsIsDir(fs, Parent(dst)) THEN "ResourceNotFound"
  ELSE IF FsIsDir(fs, dst) THEN "FileExpected"
  ELSE "none"

\* move: the bytes of src are at dst, replacing what was there, and src is gone
FsMove(fs, src, dst) ==
  LET bytes == fs.files[iteratepath(src)]
      rest == Without(fs.files, iteratepath(src))
  IN  [fs EXCEPT !.files = With(rest, iteratepath(dst), bytes)]

\* key k is the path p or lies beneath it
Beneath(k, p) == Len(k) >= Len(p) /\ SubSeq(k, 1, Len(p)) = p
\* key k, at or beneath p, carried over to q
Rebase(k, p, q) == q \o SubSeq(k, Len(p) + 1, Len(k))

\* movedir(src, dst, create=True): the error it raises, "none" for success
FsMovedirErr(fs, src, dst) ==
  IF ~FsExists(fs, src) THEN "ResourceNotFound"
  ELSE IF ~FsIsDir(fs, src) THEN "DirectoryExpected"
  ELSE IF ~FsIsDir(fs, Parent(dst)) THEN "ResourceNotFound"
  ELSE IF FsIsFile(fs, dst) THEN "DirectoryExpected"
  ELSE "none"

\* movedir: the tree under src is under dst, merged into a directory already
\* there, and src is gone
FsMovedir(fs, src, dst) ==
  LET p == iteratepath(src)
      q == iteratepath(dst)
      movedDirs == {k \in fs.dirs : Beneath(k, p)}
      movedFiles == {k \in DOMAIN fs.files : Beneath(k, p)}
      newFiles == {Rebase(k, p, q) : k \in movedFiles}
      keptFiles == (DOMAIN fs.files \ movedFiles) \ newFiles
  IN  [dirs |-> (fs.dirs \ movedDirs) \cup {Rebase(k, p, q) : k \in movedDirs},
       files |-> [k \in keptFiles \cup newFiles |->
                    IF k \in newFiles
                      THEN fs.files[CHOOSE m \in movedFiles : Rebase(m, p, q) = k]
                      ELSE fs.files[k]]]

(* --------------------------- error translation ------------------------ *)
\* The source runs under Python 2 and under Python 3 (it imports six); the
\* adapter specifications run the second.
Interpreters == {2, 3}
Interpreter == 3

\* the classes of fs.errors a VFS can raise: the ones convert_fs_errors names, and
\* classes it does not name, which are caught as their base class
ErrorKinds ==
  {"ResourceNotFound", "ResourceInvalid", "PermissionDenied", "ResourceLocked",
   "DirectoryNotEmpty", "DestinationExists", "InsufficientStorage",
   "RemoteConnectionError", "Unsupported", "FSError",
   "FileExpected", "DirectoryExpected", "DirectoryExists", "FileExists", "ResourceReadOnly"}

\* the first class named by an except clause of convert_fs_errors that the error
\* is an instance of
CaughtAs(kind) ==
  IF kind \in {"FileExpected", "DirectoryExpected"} THEN "ResourceInvalid"
  ELSE IF kind \in {"DirectoryExists", "FileExists", "ResourceReadOnly"} THEN "FSError"
  ELSE kind

\* WindowsError(code, message).errno on win32: Python 2 takes the code for a Windows
\* error code and stores the errno it stands for (32, a sharing violation, gives
\* EACCES); Python 3 takes the first of two arguments for the errno itself
WindowsErrno(py, code) ==
  IF py = 2 THEN (IF code = ERROR_SHARING_VIOLATION THEN EACCES ELSE EINVAL) ELSE code

\* fs_legacy.convert_fs_errors: the errno of the OSError raised for a VFS error.
\* The adapter loads only on win32.
convert_fs_errors_on(py, kind) ==
  LET k == CaughtAs(kind) IN
  CASE k = "ResourceNotFound" -> ENOENT
    [] k = "ResourceInvalid" -> EINVAL
    [] k = "PermissionDenied" -> EACCES
    [] k = "ResourceLocked" -> WindowsErrno(py, ERROR_SHARING_VIOLATION)
    [] k = "DirectoryNotEmpty" -> ENOTEMPTY
    [] k = "DestinationExists" -> EEXIST
    [] k = "InsufficientStorage" -> ENOSPC
    [] k = "RemoteConnectionError" -> ENETDOWN
    [] k = "Unsupported" -> ENOSYS
    [] OTHER -> EFAULT

convert_fs_errors(kind) == convert_fs_errors_on(Interpreter, kind)

\* _errno2syserrcode
errno2syserrcode(eno) ==
  IF eno = EEXIST THEN STATUS_OBJECT_NAME_COLLISION
  ELSE IF eno = ENOTEMPTY THEN STATUS_DIRECTORY_NOT_EMPTY
  ELSE IF eno = ENOSYS THEN STATUS_NOT_SUPPORTED
  ELSE IF eno = EACCES THEN STATUS_ACCESS_DENIED
  ELSE eno

\* handle_fs_errors: the status returned when the wrapped function raises an
\* OSError with errno eno
OSErrorStatus(eno) == IF eno # 0 THEN errno2syserrcode(eno) ELSE STATUS_ACCESS_DENIED

\* handle_fs_errors: the status returned when the wrapped function raises a VFS error
handle_fs_errors(kind) == OSErrorStatus(convert_fs_errors(kind))

\* handle_fs_errors around a function that returns None ("None") or raises a VFS
\* error, under interpreter py
WrappedResponse(py, outcome) ==
  IF outcome = "None" THEN 0 ELSE OSErrorStatus(convert_fs_errors_on(py, outcome))

(* ------------------------------ streams ------------------------------- *)
\* The stream objects the VFS has returned, in order of creation; a stream is
\* named by its index.  Streams on one file share the file's bytes.
NewStream(path, mode) == [key |-> iteratepath(path), mode |-> mode, pos |-> 0, closed |-> FALSE]

Zeros(n) == [i \in 1..n |-> 0]
Min(a, b) == IF a < b THEN a ELSE b
Max(a, b) == IF a < b THEN b ELSE a

\* the bytes of a file after writing data at position pos (a gap is zero filled)
WriteAt(bytes, pos, data) ==
  LET padded == IF pos > Len(bytes) THEN bytes \o Zeros(pos - Len(bytes)) ELSE bytes
  IN  SubSeq(padded, 1, pos) \o data \o SubSeq(padded, pos + Len(data) + 1, Len(padded))

\* the bytes read(n) returns at position pos
ReadAt(bytes, pos, n) == SubSeq(bytes, pos + 1, Min(pos + n, Len(bytes)))

\* the index of the next stream object
NewSid(strs) == CHOOSE i \in 1..(MaxStreams + 1) : i \notin DOMAIN strs /\ \A j \in 1..(i - 1) : j \in DOMAIN strs

\* a closed stream that neither the registry nor a running callback refers to
\* is unreachable: the interpreter frees it
Collect(strs, fbh, thr) ==
  LET live == {fbh[h].file : h \in DOMAIN fbh} \cup {thr[t].file : t \in DOMAIN thr}
  IN  [i \in {j \in DOMAIN strs : j \in live \/ ~strs[j].closed} |-> strs[i]]

\* the bytes of the file a stream is open on (none when the file is gone)
StreamBytes(fs, st) == IF st.key \in DOMAIN fs.files THEN fs.files[st.key] ELSE <<>>

(* --------------------- the path-keyed map (PathMap) -------------------- *)
\* A PathMap is the function from the component list of a key to its value.
PathMapHas(pm, path) == iteratepath(path) \in DOMAIN pm
PathMapGet(pm, path) == pm[iteratepath(path)]
PathMapSet(pm, path, value) == With(pm, iteratepath(path), value)
PathMapDel(pm, path) == Without(pm, iteratepath(path))

(* -------------------------- the handle registry ----------------------- *)
Handles == MinimumFileHandler..(MinimumFileHandler + MaxHandles - 1)

\* _reg_file handing out the lowest integer that no registered handle uses
RegFile_reuse(fbh, nh, fsw, File, FileName) ==
  LET FileHandle == CHOOSE h \in MinimumFileHandler..nh :
                      h \notin DOMAIN fbh /\ \A g \in MinimumFileHandler..(h - 1) : g \in DOMAIN fbh
      fsw1 == IF ~PathMapHas(fsw, FileName) THEN PathMapSet(fsw, FileName, <<>>) ELSE fsw
  IN  [FileHandle |-> FileHandle,
       next_handle |-> nh + 1,
       files_by_handle |-> With(fbh, FileHandle, [file |-> File, path |-> FileName]),
       files_size_written |->
         PathMapSet(fsw1, FileName, With(PathMapGet(fsw1, FileName), FileHandle, 0))]

\* FSOperations._reg_file: the handle it returns and the tables it leaves
RegFile(fbh, nh, fsw, File, FileName) ==
  LET FileHandle == nh
      fsw1 == IF ~PathMapHas(fsw, FileName) THEN PathMapSet(fsw, FileName, <<>>) ELSE fsw
  IN  [FileHandle |-> FileHandle,
       next_handle |-> nh + 1,
       files_by_handle |-> With(fbh, FileHandle, [file |-> File, path |-> FileName]),
       files_size_written |->
         PathMapSet(fsw1, FileName, With(PathMapGet(fsw1, FileName), FileHandle, 0))]

\* FSOperations._del_file raises KeyError when the handle or its size entry is gone
DelFileErr(fbh, fsw, FileHandle) ==
  IF FileHandle \notin DOMAIN fbh THEN "KeyError"
  ELSE IF ~PathMapHas(fsw, fbh[FileHandle].path) THEN "KeyError"
  ELSE IF FileHandle \notin DOMAIN PathMapGet(fsw, fbh[FileHandle].path) THEN "KeyError"
  ELSE "none"

\* _del_file forgetting the handle but not its size entry
DelFile_keep(fbh, fsw, FileHandle) ==
  [files_by_handle |-> Without(fbh, FileHandle), files_size_written |-> fsw]

\* FSOperations._del_file: the tables it leaves
DelFile(fbh, fsw, FileHandle) ==
  LET path == fbh[FileHandle].path
      sizes == Without(PathMapGet(fsw, path), FileHandle)
  IN  [files_by_handle |-> Without(fbh, FileHandle),
       files_size_written |->
         IF DOMAIN sizes = {} THEN PathMapDel(fsw, path) ELSE PathMapSet(fsw, path, sizes)]

\* _is_pending_delete testing the path alone, not its parents
is_pending_delete_exact(pending, FileName) == FileName \in pending

\* FSOperations._is_pending_delete
is_pending_delete(pending, FileName) == \E ppath \in recursepath(FileName) : ppath \in pending

(* ------------------------------- state -------------------------------- *)
VARIABLES
  vfs,                 \* the VFS backend: [dirs, files]
  streams,             \* the stream objects opened so far
  files_by_handle,     \* FSOperations._files_by_handle: handle -> [file, path]
  next_handle,         \* FSOperations._next_handle
  files_size_written,  \* FSOperations._files_size_written: path -> handle -> size
  active_locks,        \* FSOperations._active_locks: path -> list of (handle, start, end)
  pending_delete,      \* FSOperations._pending_delete: set of paths
  op_mutex,            \* per handle, the thread holding the lock of its record (0: free)
  slot,                \* the driver's open file objects (DOKAN_OPEN_INFO)
  th,                  \* per driver thread, the callback it runs and its locals
  issued,              \* history: the handles _reg_file has returned, in order
  quiet,               \* history: the files and registered streams when no callback
                       \* was running, and whether a callback has returned since
  protect_queue,       \* _TIMEOUT_PROTECT_QUEUE: records [id, age], age = now - when
  finished,            \* per record, whether its "finished" list is non-empty
  running,             \* the records whose wrapped callback has not left its try block
  protect_thread,      \* the watcher thread: started, pc, the record it holds, sleep left
  resets,              \* history: per record, the parity of the resets sent for it
  calls,               \* history: the calls of a function wrapped by handle_fs_errors,
                       \* each with what the function did and the status returned
  files_lock,          \* FSOperations._files_lock: the thread holding it (0: free)
  threads_started,     \* history: the number of watcher threads started
  wrapper,             \* per record, where its wrapper is before it appends the record
  conv,                \* a value and what the conversions under study make of it
  pm,                  \* a PathMap under study: its _map, a trie of dictionaries
  times,               \* the VFS backend: per path, its accessed and modified times
  protect_lock,        \* _TIMEOUT_PROTECT_LOCK: who holds it (0: free)
  wrapped              \* per driver thread, where it is in timeout_protect.wrapper

vars == <<vfs, streams, files_by_handle, next_handle, files_size_written, active_locks,
          pending_delete, op_mutex, slot, th, issued, quiet,
          protect_queue, finished, running, protect_thread, resets, calls,
          files_lock, threads_started, wrapper, conv, pm, times, protect_lock, wrapped>>

\* the records timeout_protect can have alive at once
Records == 1..MaxRecords
\* _TIMEOUT_PROTECT_THREAD is None: pc "none"; otherwise the thread is at "pop" (about to
\* take the condition and pop), "wait" (in Condition.wait), "check" (first test of
\* finished), "sleep" (in time.sleep, with "left" still to go) or "lock" (sleep over,
\* about to take _TIMEOUT_PROTECT_LOCK); "rec" is the record it popped, 0 for none
NoThread == [pc |-> "none", rec |-> 0, age |-> 0, left |-> 0]

\* the state of the timeout watcher
watchvars == <<protect_queue, finished, running, protect_thread, resets,
               threads_started, wrapper>>
\* the watcher lock and the position of each driver thread in the wrapper, which
\* only the study of the locks follows step by step
lockvars == <<protect_lock, wrapped>>
\* the values the studies of the conversions and of the PathMap work on, and the
\* timestamps of the backend, which SetFileTime alone changes
probevars == <<conv, pm, times, lockvars>>
\* the state of the dispatcher, the VFS and the driver's file objects
adaptervars == <<vfs, streams, files_by_handle, next_handle, files_size_written, active_locks,
                 pending_delete, op_mutex, slot, th, issued, quiet, files_lock>>

Threads == {1, 2}
\* the driver thread of a mount with one worker thread
SeqThreads == {1}
Slots == {1, 2}

\* a driver thread that runs no callback
IdleTh ==
  [op |-> "idle", pc |-> "idle", slot |-> 0, FileName |-> <<>>, NewFileName |-> <<>>,
   SearchPattern |-> <<>>,
   path |-> <<>>, Disp |-> 0, Access |-> {},
   Options |-> {}, Context |-> 0, IsDirectory |-> 0, DeleteOnClose |-> FALSE,
   Offset |-> 0, Length |-> 0, Data |-> <<>>, WriteToEndOfFile |-> FALSE, file |-> 0, mode |-> "", retcode |-> 0,
   AllocSize |-> 0,
   ret |-> 0, exc |-> "none", out |-> <<>>, found |-> {}, nFileSize |-> 0,
   nNumberOfLinks |-> 0,
   LastAccessTime |-> [type |-> "NoneType"], LastWriteTime |-> [type |-> "NoneType"],
   fserr |-> "none"]

\* a file object of the driver that is not in use
FreeSlot == [st |-> "free", name |-> <<>>, UserContext |-> 0, IsDirectory |-> 0, doc |-> FALSE]

\* the VFS the tests mount: test.txt, TestDir and TestDir/subtest.txt
TestFs ==
  [dirs |-> {<<>>, <<(<<"d">>)>>},
   files |-> [k \in {<<(<<"a">>)>>, <<(<<"d">>), (<<"a">>)>>} |-> <<9>>]]

\* the timestamps of the resources of TestFs, as counts of 100 ns since 1601
TestTimes ==
  [k \in TestFs.dirs \cup DOMAIN TestFs.files |->
     [accessed |-> [type |-> "datetime", t |-> 1], modified |-> [type |-> "datetime", t |-> 1]]]

\* what the history keeps of a state in which no callback runs
Snapshot(fs, strs, fbh) ==
  [files |-> fs.files,
   reg |-> [h \in DOMAIN fbh |-> [closed |-> strs[fbh[h].file].closed,
                                  mode |-> strs[fbh[h].file].mode]],
   returned |-> FALSE]

\* FSOperations.__init__
InitRegistry ==
  /\ files_by_handle = <<>>
  /\ next_handle = MinimumFileHandler
  /\ files_size_written = <<>>
  /\ active_locks = <<>>
  /\ pending_delete = {}
  /\ op_mutex = [h \in Handles |-> 0]
  /\ files_lock = 0

\* the module globals of the watcher after import: empty deque, no thread
InitWatch ==
  /\ protect_queue = <<>>
  /\ finished = [r \in Records |-> TRUE]
  /\ running = {}
  /\ protect_thread = NoThread
  /\ resets = [r \in Records |-> 0]
  /\ threads_started = 0
  /\ wrapper = [r \in Records |-> "out"]

\* the mounted adapter before the first callback
InitAdapter ==
  /\ vfs = TestFs
  /\ streams = <<>>
  /\ InitRegistry
  /\ slot = [o \in Slots |-> FreeSlot]
  /\ th = [t \in Threads |-> IdleTh]
  /\ issued = <<>>
  /\ quiet = Snapshot(TestFs, <<>>, <<>>)
  /\ InitWatch
  /\ calls = <<>>
  /\ times = TestTimes
  /\ protect_lock = 0
  /\ wrapped = [t \in Threads |-> "out"]

\* no value under study
NoConv == [n |-> 0, x |-> <<>>, y |-> <<>>, z |-> <<>>]

Init ==
  /\ InitAdapter
  /\ conv = NoConv
  /\ pm = <<>>

\* the callback returns status r
Returns(c, r) == [c EXCEPT !.pc = "ret", !.ret = r]
\* an exception other than a VFS error propagates out of the callback
Raises(c, e) == [c EXCEPT !.pc = "ret", !.exc = e]
\* a VFS error is raised inside the callback: handle_fs_errors returns its status
RaisesFs(c, kind) == Returns(c, handle_fs_errors(kind))

UnchangedRegistry ==
  UNCHANGED <<files_by_handle, next_handle, files_size_written, active_locks, op_mutex, issued,
              quiet, watchvars, calls, files_lock, probevars>>

(* ----------------------------- ZwCreateFile --------------------------- *)
\* every disposition opening for writing, FILE_OPEN too
CreateMode_w(CreateDisposition) == "w+b"
\* the open mode of the file branch of ZwCreateFile
CreateMode(CreateDisposition) == IF CreateDisposition = FILE_OPEN THEN "r+b" ELSE "w+b"

\* the early return of the file branch of ZwCreateFile (-1: none)
CreateEarly(fs, FileName, DesiredAccess, CreateDisposition) ==
  IF DesiredAccess = {} THEN FILE_DOES_NOT_EXIST
  ELSE IF CreateDisposition = FILE_OPEN /\ ~FsExists(fs, FileName) THEN FILE_DOES_NOT_EXIST
  ELSE IF CreateDisposition = FILE_CREATE /\ FsExists(fs, FileName) THEN ERROR_ALREADY_EXISTS
  ELSE IF CreateDisposition = FILE_OVERWRITE /\ ~FsExists(fs, FileName) THEN FILE_DOES_NOT_EXIST
  ELSE -1

\* retcode of the file branch of ZwCreateFile
CreateRetcode(CreateDisposition) ==
  IF CreateDisposition = FILE_OVERWRITE_IF THEN FILE_OVERWRITTEN
  ELSE IF CreateDisposition = FILE_SUPERSEDE THEN FILE_SUPERSEDED
  ELSE STATUS_SUCCESS

\* ZwCreateFile up to the return of fs.open: the pending-delete test, the
\* directory branch, and the checks and the open of the file branch
ZwCreateFileOf(t, fns, disps, accs, opts, isdirs) ==
  /\ th[t].pc = "idle"
  /\ next_handle + Cardinality({u \in Threads : th[u].pc = "reg"}) < MinimumFileHandler + MaxHandles
  /\ Cardinality(DOMAIN streams) < MaxStreams
  /\ \E o \in Slots, fn \in fns, disp \in disps, acc \in accs, opt \in opts, isdir \in isdirs :
       /\ slot[o].st = "free"
       /\ slot' = [slot EXCEPT ![o] = [FreeSlot EXCEPT !.st = "creating", !.name = fn]]
       /\ LET FileName == dokanpath2pyfs(fn)
              c0 == [IdleTh EXCEPT !.op = "ZwCreateFile", !.slot = o, !.FileName = fn,
                       !.Disp = disp, !.Access = acc, !.Options = opt, !.IsDirectory = isdir]
              isdir1 == IF acc \cap DataAccessBits = {} /\ disp \in {FILE_OPEN, FILE_CREATE}
                        THEN 0 ELSE isdir
              cd == [c0 EXCEPT !.IsDirectory = 1]
              cf == [c0 EXCEPT !.IsDirectory = isdir1]
              mkerr == FsMakedirErr(vfs, FileName)
              mode == CreateMode(disp)
              early == CreateEarly(vfs, FileName, acc, disp)
              operr == FsOpenErr(vfs, FileName, mode)
          IN
          IF is_pending_delete(pending_delete, FileName)
            THEN /\ th' = [th EXCEPT ![t] = Returns(c0, STATUS_ACCESS_DENIED)]
                 /\ UNCHANGED <<vfs, streams>>
          ELSE IF FsIsDir(vfs, FileName) \/ isdir1 = 1
            THEN IF disp = FILE_OPEN
                   THEN /\ th' = [th EXCEPT ![t] =
                                    Returns(cd, IF FsExists(vfs, FileName) THEN STATUS_SUCCESS
                                                ELSE FILE_DOES_NOT_EXIST)]
                        /\ UNCHANGED <<vfs, streams>>
                 ELSE IF disp = FILE_CREATE \/ (disp = FILE_OPEN_IF /\ ~FsExists(vfs, FileName))
                   THEN IF mkerr # "none"
                          THEN /\ th' = [th EXCEPT ![t] = RaisesFs(cd, mkerr)]
                               /\ UNCHANGED <<vfs, streams>>
                          ELSE /\ th' = [th EXCEPT ![t] = Returns(cd, STATUS_SUCCESS)]
                               /\ vfs' = FsMakedir(vfs, FileName)
                               /\ UNCHANGED streams
                 ELSE /\ th' = [th EXCEPT ![t] = Returns(cd, STATUS_SUCCESS)]
                      /\ UNCHANGED <<vfs, streams>>
          ELSE IF early # -1
            THEN /\ th' = [th EXCEPT ![t] = Returns(cf, early)]
                 /\ UNCHANGED <<vfs, streams>>
          ELSE IF operr # "none"
            THEN /\ th' = [th EXCEPT ![t] = RaisesFs(cf, operr)]
                 /\ UNCHANGED <<vfs, streams>>
          ELSE /\ vfs' = FsOpen(vfs, FileName, mode)
               /\ streams' = With(streams, NewSid(streams), NewStream(FileName, mode))
               /\ th' = [th EXCEPT ![t] = [cf EXCEPT !.pc = "reg", !.file = NewSid(streams),
                                              !.mode = mode, !.retcode = CreateRetcode(disp)]]
  /\ UNCHANGED pending_delete
  /\ UnchangedRegistry

\* ZwCreateFile with any path, disposition, access mask, options and IsDirectory
ZwCreateFile(t) ==
  ZwCreateFileOf(t, HostPaths, Dispositions, AccessMasks, OptionMasks, {0, 1})

\* ZwCreateFile of the file \a for reading and writing
ZwCreateFile_a(t) ==
  ZwCreateFileOf(t, {HostA}, {FILE_OPEN, FILE_OPEN_IF}, {{"FILE_READ_DATA"}}, {{}}, {0})

\* ZwCreateFile after fs.open: _reg_file, the context, the pending-delete mark
ZwCreateFile_reg(t) ==
  /\ th[t].pc = "reg"
  /\ files_lock = 0
  /\ LET c == th[t]
         FileName == dokanpath2pyfs(c.FileName)
         r == RegFile(files_by_handle, next_handle, files_size_written, c.file, FileName)
     IN  /\ files_by_handle' = r.files_by_handle
         /\ next_handle' = r.next_handle
         /\ files_size_written' = r.files_size_written
         /\ issued' = Append(issued, r.FileHandle)
         /\ pending_delete' =
              IF c.retcode = STATUS_SUCCESS /\ "FILE_DELETE_ON_CLOSE" \in c.Options
              THEN pending_delete \cup {FileName} ELSE pending_delete
         /\ th' = [th EXCEPT ![t] = Returns([c EXCEPT !.Context = r.FileHandle], c.retcode)]
  /\ UNCHANGED <<vfs, streams, active_locks, op_mutex, slot, quiet,
                 watchvars, calls, files_lock, probevars>>

(* ------------------- the driver's side of a callback ------------------- *)
\* the driver takes the callback's result: the context goes back to the file
\* object; a create that failed, and a CloseFile, free the file object; a rename
\* that succeeded gives the file object its new name
Return(t) ==
  /\ th[t].pc = "ret"
  /\ LET c == th[t]
         o == c.slot
         opened == c.exc = "none" /\ (c.ret = STATUS_SUCCESS \/ c.Context # 0)
     IN  slot' =
           IF c.op = "ZwCreateFile"
             THEN IF opened
                    THEN [slot EXCEPT ![o] = [st |-> "open", name |-> c.FileName,
                                             UserContext |-> c.Context,
                                             IsDirectory |-> c.IsDirectory,
                                             doc |-> "FILE_DELETE_ON_CLOSE" \in c.Options]]
                    ELSE [slot EXCEPT ![o] = FreeSlot]
           ELSE IF c.op = "CloseFile" THEN [slot EXCEPT ![o] = FreeSlot]
           ELSE IF slot[o].st \in {"open", "cleaned"}
             THEN [slot EXCEPT ![o].UserContext = c.Context,
                               ![o].name = IF c.op = "MoveFile" /\ c.exc = "none"
                                                /\ c.ret = STATUS_SUCCESS
                                             THEN c.NewFileName ELSE @,
                               ![o].doc = slot[o].doc \/
                                  (c.op \in {"DeleteFile", "DeleteDirectory"}
                                     /\ c.exc = "none" /\ c.ret = STATUS_SUCCESS)]
           ELSE slot
  /\ th' = [th EXCEPT ![t] = IdleTh]
  /\ streams' = Collect(streams, files_by_handle, th')
  /\ quiet' = IF \A u \in Threads : th'[u].pc = "idle"
                THEN Snapshot(vfs, streams', files_by_handle)
                ELSE [quiet EXCEPT !.returned = TRUE]
  /\ UNCHANGED <<vfs, pending_delete, files_by_handle, next_handle, files_size_written,
                 active_locks, op_mutex, issued, watchvars, calls, files_lock, probevars>>

(* --------------------- callbacks on an open file object ---------------- *)
\* the driver calls a callback on file object o: the DokanFileInfo it passes
CallOn(opname, o) ==
  [IdleTh EXCEPT !.op = opname, !.slot = o, !.FileName = slot[o].name,
                 !.Context = slot[o].UserContext, !.IsDirectory = slot[o].IsDirectory,
                 !.DeleteOnClose = slot[o].doc]

\* FSOperations._get_file raises FSError("invalid file handle") for an unknown handle
GetFileFails(fbh, FileHandle) == FileHandle \notin DOMAIN fbh

(* -------------------------------- Cleanup ----------------------------- *)
\* Cleanup up to lock.acquire(): the directory branch, or _get_file
Cleanup(t) ==
  /\ th[t].pc = "idle"
  /\ \E o \in Slots :
       /\ slot[o].st = "open"
       /\ slot' = [slot EXCEPT ![o].st = "cleaned"]
       /\ LET c == CallOn("Cleanup", o)
              FileName == dokanpath2pyfs(c.FileName)
              rderr == FsRemovedirErr(vfs, FileName)
          IN
          IF c.IsDirectory # 0
            THEN IF ~c.DeleteOnClose
                   THEN /\ th' = [th EXCEPT ![t] = Returns(c, STATUS_SUCCESS)]
                        /\ UNCHANGED <<vfs, pending_delete>>
                 ELSE IF rderr # "none"
                   THEN /\ th' = [th EXCEPT ![t] = RaisesFs(c, rderr)]
                        /\ UNCHANGED <<vfs, pending_delete>>
                 ELSE /\ vfs' = FsRemovedir(vfs, FileName)
                      /\ IF FileName \in pending_delete
                           THEN /\ pending_delete' = pending_delete \ {FileName}
                                /\ th' = [th EXCEPT ![t] = Returns(c, STATUS_SUCCESS)]
                           ELSE /\ th' = [th EXCEPT ![t] = Raises(c, "KeyError")]
                                /\ UNCHANGED pending_delete
          ELSE IF GetFileFails(files_by_handle, c.Context)
            THEN /\ th' = [th EXCEPT ![t] = RaisesFs(c, "FSError")]
                 /\ UNCHANGED <<vfs, pending_delete>>
          ELSE /\ th' = [th EXCEPT ![t] =
                           [c EXCEPT !.pc = "lock", !.file = files_by_handle[c.Context].file]]
               /\ UNCHANGED <<vfs, pending_delete>>
  /\ UNCHANGED streams
  /\ UnchangedRegistry

\* Cleanup under the handle's lock: close, and with DeleteOnClose remove,
\* clear the pending-delete mark, unregister and zero the context
Cleanup_locked(t) ==
  /\ th[t].op = "Cleanup" /\ th[t].pc = "lock"
  /\ op_mutex[th[t].Context] = 0
  /\ th[t].DeleteOnClose => files_lock = 0
  /\ LET c == th[t]
         FileName == dokanpath2pyfs(c.FileName)
         rmerr == FsRemoveErr(vfs, FileName)
         d == DelFile(files_by_handle, files_size_written, c.Context)
     IN  /\ streams' = [streams EXCEPT ![c.file].closed = TRUE]
         /\ IF ~c.DeleteOnClose
              THEN /\ th' = [th EXCEPT ![t] = Returns(c, STATUS_SUCCESS)]
                   /\ UNCHANGED <<vfs, pending_delete, files_by_handle, files_size_written>>
            ELSE IF rmerr # "none"
              THEN /\ th' = [th EXCEPT ![t] = RaisesFs(c, rmerr)]
                   /\ UNCHANGED <<vfs, pending_delete, files_by_handle, files_size_written>>
            ELSE /\ vfs' = FsRemove(vfs, FileName)
                 /\ IF FileName \notin pending_delete
                      THEN /\ th' = [th EXCEPT ![t] = Raises(c, "KeyError")]
                           /\ UNCHANGED <<pending_delete, files_by_handle, files_size_written>>
                    ELSE /\ pending_delete' = pending_delete \ {FileName}
                         /\ IF DelFileErr(files_by_handle, files_size_written, c.Context) # "none"
                              THEN /\ th' = [th EXCEPT ![t] = Raises(c, "KeyError")]
                                   /\ UNCHANGED <<files_by_handle, files_size_written>>
                              ELSE /\ files_by_handle' = d.files_by_handle
                                   /\ files_size_written' = d.files_size_written
                                   /\ th' = [th EXCEPT ![t] =
                                               Returns([c EXCEPT !.Context = 0], STATUS_SUCCESS)]
  /\ UNCHANGED <<next_handle, active_locks, op_mutex, slot, issued, quiet,
                 watchvars, calls, files_lock, probevars>>

(* ------------------------------- CloseFile ---------------------------- *)
\* CloseFile up to lock.acquire()
CloseFile(t) ==
  /\ th[t].pc = "idle"
  /\ \E o \in Slots :
       /\ slot[o].st = "cleaned"
       /\ slot' = [slot EXCEPT ![o].st = "closing"]
       /\ LET c == CallOn("CloseFile", o) IN
          th' = [th EXCEPT ![t] =
                   IF c.Context < MinimumFileHandler THEN Returns(c, STATUS_SUCCESS)
                   ELSE IF GetFileFails(files_by_handle, c.Context) THEN RaisesFs(c, "FSError")
                   ELSE [c EXCEPT !.pc = "lock", !.file = files_by_handle[c.Context].file]]
  /\ UNCHANGED <<vfs, streams, pending_delete>>
  /\ UnchangedRegistry

\* CloseFile under the handle's lock: close, unregister, then zero the context
CloseFile_locked(t) ==
  /\ th[t].op = "CloseFile" /\ th[t].pc = "lock"
  /\ op_mutex[th[t].Context] = 0
  /\ files_lock = 0
  /\ LET c == th[t]
         d == DelFile(files_by_handle, files_size_written, c.Context)
     IN  /\ streams' = [streams EXCEPT ![c.file].closed = TRUE]
         /\ IF DelFileErr(files_by_handle, files_size_written, c.Context) # "none"
              THEN /\ th' = [th EXCEPT ![t] = Raises(c, "KeyError")]
                   /\ UNCHANGED <<files_by_handle, files_size_written>>
              ELSE /\ files_by_handle' = d.files_by_handle
                   /\ files_size_written' = d.files_size_written
                   /\ th' = [th EXCEPT ![t] = Returns([c EXCEPT !.Context = 0], STATUS_SUCCESS)]
  /\ UNCHANGED <<vfs, pending_delete, next_handle, active_locks, op_mutex, slot, issued, quiet,
                 watchvars, calls, files_lock, probevars>>

(* ---------------- CloseFile under the two locks, step by step ---------- *)
\* CloseFile: lock.acquire() and file.close()
CloseFile_close(t) ==
  /\ th[t].op = "CloseFile" /\ th[t].pc = "lock"
  /\ op_mutex[th[t].Context] = 0
  /\ op_mutex' = [op_mutex EXCEPT ![th[t].Context] = t]
  /\ streams' = [streams EXCEPT ![th[t].file].closed = TRUE]
  /\ th' = [th EXCEPT ![t].pc = "del"]
  /\ UNCHANGED <<vfs, pending_delete, files_by_handle, files_size_written, next_handle,
                 active_locks, slot, issued, quiet, files_lock, watchvars, calls, probevars>>

\* _del_file, called by CloseFile and by Cleanup with DeleteOnClose under the lock
\* of the handle: self._files_lock.acquire()
CloseFile_acquire(t) ==
  /\ th[t].op \in {"CloseFile", "Cleanup"} /\ th[t].pc = "del"
  /\ files_lock = 0
  /\ files_lock' = t
  /\ th' = [th EXCEPT ![t].pc = "pop"]
  /\ UNCHANGED <<vfs, streams, pending_delete, files_by_handle, files_size_written,
                 next_handle, active_locks, op_mutex, slot, issued, quiet, watchvars, calls,
                 probevars>>

\* _del_file: the pop of the record and the deletion of the size entry of the
\* handle; a KeyError releases both locks on its way out
CloseFile_pop(t) ==
  /\ th[t].op \in {"CloseFile", "Cleanup"} /\ th[t].pc = "pop"
  /\ LET c == th[t]
         path == files_by_handle[c.Context].path
     IN  IF DelFileErr(files_by_handle, files_size_written, c.Context) # "none"
           THEN /\ files_by_handle' = Without(files_by_handle, c.Context)
                /\ th' = [th EXCEPT ![t] = Raises(c, "KeyError")]
                /\ files_lock' = 0
                /\ op_mutex' = [op_mutex EXCEPT ![c.Context] = 0]
                /\ UNCHANGED files_size_written
           ELSE /\ files_by_handle' = Without(files_by_handle, c.Context)
                /\ files_size_written' =
                     PathMapSet(files_size_written, path,
                                Without(PathMapGet(files_size_written, path), c.Context))
                /\ th' = [th EXCEPT ![t].pc = "prune", ![t].path = path]
                /\ UNCHANGED <<files_lock, op_mutex>>
  /\ UNCHANGED <<vfs, streams, pending_delete, next_handle, active_locks, slot, issued, quiet,
                 watchvars, calls, probevars>>

\* _del_file leaving the path that has no size entry left in the size table
CloseFile_prune_skip(t) ==
  /\ th[t].op \in {"CloseFile", "Cleanup"} /\ th[t].pc = "prune"
  /\ files_lock' = 0
  /\ op_mutex' = [op_mutex EXCEPT ![th[t].Context] = 0]
  /\ th' = [th EXCEPT ![t] = Returns([th[t] EXCEPT !.Context = 0], STATUS_SUCCESS)]
  /\ UNCHANGED <<vfs, streams, pending_delete, files_by_handle, files_size_written, next_handle,
                 active_locks, slot, issued, quiet, watchvars, calls, probevars>>

\* _del_file ends and the caller returns without releasing the lock of the handle
CloseFile_prune_held(t) ==
  /\ th[t].op \in {"CloseFile", "Cleanup"} /\ th[t].pc = "prune"
  /\ files_size_written' =
       IF DOMAIN PathMapGet(files_size_written, th[t].path) = {}
         THEN PathMapDel(files_size_written, th[t].path)
         ELSE files_size_written
  /\ files_lock' = 0
  /\ th' = [th EXCEPT ![t] = Returns([th[t] EXCEPT !.Context = 0], STATUS_SUCCESS)]
  /\ UNCHANGED <<vfs, streams, pending_delete, files_by_handle, next_handle, active_locks,
                 op_mutex, slot, issued, quiet, watchvars, calls, probevars>>

\* _del_file: the deletion of the path that has no size entry left and the
\* release of _files_lock; then the caller releases the lock of the handle and
\* zeroes the context
CloseFile_prune(t) ==
  /\ th[t].op \in {"CloseFile", "Cleanup"} /\ th[t].pc = "prune"
  /\ files_size_written' =
       IF DOMAIN PathMapGet(files_size_written, th[t].path) = {}
         THEN PathMapDel(files_size_written, th[t].path)
         ELSE files_size_written
  /\ files_lock' = 0
  /\ op_mutex' = [op_mutex EXCEPT ![th[t].Context] = 0]
  /\ th' = [th EXCEPT ![t] = Returns([th[t] EXCEPT !.Context = 0], STATUS_SUCCESS)]
  /\ UNCHANGED <<vfs, streams, pending_delete, files_by_handle, next_handle, active_locks,
                 slot, issued, quiet, watchvars, calls, probevars>>

(* -------------------------------- MoveFile ---------------------------- *)
\* The names the driver asks to rename a file object to: another name, and for a
\* directory none inside itself (the host refuses those before the call).
NewNames(o) ==
  {n \in HostPaths : /\ n # slot[o].name
                     /\ ~Beneath(iteratepath(dokanpath2pyfs(n)),
                                 iteratepath(dokanpath2pyfs(slot[o].name)))}

\* MoveFile up to lock.acquire(): _get_file when the context holds a handle
MoveFile(t) ==
  /\ th[t].pc = "idle"
  /\ \E o \in Slots : \E n \in NewNames(o) :
       /\ slot[o].st = "open"
       /\ LET c == [CallOn("MoveFile", o) EXCEPT !.NewFileName = n] IN
          th' = [th EXCEPT ![t] =
                   IF c.Context < MinimumFileHandler THEN [c EXCEPT !.pc = "move"]
                   ELSE IF GetFileFails(files_by_handle, c.Context) THEN RaisesFs(c, "FSError")
                   ELSE [c EXCEPT !.pc = "lock", !.file = files_by_handle[c.Context].file]]
  /\ UNCHANGED <<vfs, streams, slot, pending_delete>>
  /\ UnchangedRegistry

\* MoveFile going on to the move with the stream open and the handle registered
MoveFile_keep(t) ==
  /\ th[t].op = "MoveFile" /\ th[t].pc = "lock"
  /\ th' = [th EXCEPT ![t].pc = "move"]
  /\ UNCHANGED <<vfs, streams, slot, pending_delete>>
  /\ UnchangedRegistry

\* MoveFile under the handle's lock: close the stream and unregister the handle
MoveFile_locked(t) ==
  /\ th[t].op = "MoveFile" /\ th[t].pc = "lock"
  /\ op_mutex[th[t].Context] = 0
  /\ files_lock = 0
  /\ LET c == th[t]
         d == DelFile(files_by_handle, files_size_written, c.Context)
     IN  /\ streams' = [streams EXCEPT ![c.file].closed = TRUE]
         /\ IF DelFileErr(files_by_handle, files_size_written, c.Context) # "none"
              THEN /\ th' = [th EXCEPT ![t] = Raises(c, "KeyError")]
                   /\ UNCHANGED <<files_by_handle, files_size_written>>
              ELSE /\ files_by_handle' = d.files_by_handle
                   /\ files_size_written' = d.files_size_written
                   /\ th' = [th EXCEPT ![t].pc = "move"]
  /\ UNCHANGED <<vfs, pending_delete, next_handle, active_locks, op_mutex, slot, issued, quiet,
                 watchvars, calls, files_lock, probevars>>

\* MoveFile, the move itself: movedir for a directory, move with overwrite for a file
MoveFile_move(t) ==
  /\ th[t].op = "MoveFile" /\ th[t].pc = "move"
  /\ LET c == th[t]
         FileName == dokanpath2pyfs(c.FileName)
         NewFileName == dokanpath2pyfs(c.NewFileName)
         mderr == FsMovedirErr(vfs, FileName, NewFileName)
         mverr == FsMoveErr(vfs, FileName, NewFileName)
     IN  IF c.IsDirectory # 0
           THEN IF mderr # "none"
                  THEN /\ th' = [th EXCEPT ![t] = RaisesFs(c, mderr)]
                       /\ UNCHANGED vfs
                  ELSE /\ vfs' = FsMovedir(vfs, FileName, NewFileName)
                       /\ th' = [th EXCEPT ![t] = Returns(c, STATUS_SUCCESS)]
           ELSE IF mverr # "none"
                  THEN /\ th' = [th EXCEPT ![t] = RaisesFs(c, mverr)]
                       /\ UNCHANGED vfs
                  ELSE /\ vfs' = FsMove(vfs, FileName, NewFileName)
                       /\ th' = [th EXCEPT ![t] = Returns(c, STATUS_SUCCESS)]
  /\ UNCHANGED <<streams, slot, pending_delete>>
  /\ UnchangedRegistry

(* ------------------------ DeleteFile, DeleteDirectory ------------------ *)
\* DeleteFile removing the file at once instead of marking it
DeleteFile_eager(t) ==
  /\ th[t].pc = "idle"
  /\ \E o \in Slots :
       /\ slot[o].st = "open"
       /\ LET c == CallOn("DeleteFile", o)
              FileName == dokanpath2pyfs(c.FileName)
          IN  /\ FsIsFile(vfs, FileName)
              /\ vfs' = FsRemove(vfs, FileName)
              /\ th' = [th EXCEPT ![t] = Returns(c, STATUS_SUCCESS)]
  /\ UNCHANGED <<streams, slot, pending_delete>>
  /\ UnchangedRegistry

DeleteFile(t) ==
  /\ th[t].pc = "idle"
  /\ \E o \in Slots :
       /\ slot[o].st = "open"
       /\ LET c == CallOn("DeleteFile", o)
              FileName == dokanpath2pyfs(c.FileName)
          IN  IF ~FsIsFile(vfs, FileName)
                THEN /\ th' = [th EXCEPT ![t] =
                                 Returns(c, IF ~FsExists(vfs, FileName) THEN STATUS_ACCESS_DENIED
                                            ELSE STATUS_OBJECT_NAME_NOT_FOUND)]
                     /\ UNCHANGED pending_delete
                ELSE /\ pending_delete' = pending_delete \cup {FileName}
                     /\ th' = [th EXCEPT ![t] = Returns(c, STATUS_SUCCESS)]
  /\ UNCHANGED <<vfs, streams, slot>>
  /\ UnchangedRegistry

\* DeleteDirectory refusing every directory that has a child in the listing
DeleteDirectory_strict(t) ==
  /\ th[t].pc = "idle"
  /\ \E o \in Slots :
       /\ slot[o].st = "open"
       /\ LET c == CallOn("DeleteDirectory", o)
              FileName == dokanpath2pyfs(c.FileName)
              lserr == FsListdirErr(vfs, FileName)
          IN  IF lserr # "none"
                THEN /\ th' = [th EXCEPT ![t] = RaisesFs(c, lserr)]
                     /\ UNCHANGED pending_delete
              ELSE IF FsListdir(vfs, FileName) # {}
                THEN /\ th' = [th EXCEPT ![t] = Returns(c, STATUS_DIRECTORY_NOT_EMPTY)]
                     /\ UNCHANGED pending_delete
              ELSE /\ pending_delete' = pending_delete \cup {FileName}
                   /\ th' = [th EXCEPT ![t] = Returns(c, STATUS_SUCCESS)]
  /\ UNCHANGED <<vfs, streams, slot>>
  /\ UnchangedRegistry

DeleteDirectory(t) ==
  /\ th[t].pc = "idle"
  /\ \E o \in Slots :
       /\ slot[o].st = "open"
       /\ LET c == CallOn("DeleteDirectory", o)
              FileName == dokanpath2pyfs(c.FileName)
              lserr == FsListdirErr(vfs, FileName)
          IN  IF lserr # "none"
                THEN /\ th' = [th EXCEPT ![t] = RaisesFs(c, lserr)]
                     /\ UNCHANGED pending_delete
              ELSE IF \E nm \in FsListdir(vfs, FileName) :
                        ~is_pending_delete(pending_delete, join(FileName, nm))
                THEN /\ th' = [th EXCEPT ![t] = Returns(c, STATUS_DIRECTORY_NOT_EMPTY)]
                     /\ UNCHANGED pending_delete
              ELSE /\ pending_delete' = pending_delete \cup {FileName}
                   /\ th' = [th EXCEPT ![t] = Returns(c, STATUS_SUCCESS)]
  /\ UNCHANGED <<vfs, streams, slot>>
  /\ UnchangedRegistry

(* -------------------------------- FindFiles ---------------------------- *)
\* FindFiles delivering every name of the listing
FindFiles_all(t) ==
  /\ th[t].pc = "idle"
  /\ \E o \in Slots :
       /\ slot[o].st = "open"
       /\ LET c == CallOn("FindFiles", o)
              FileName == dokanpath2pyfs(c.FileName)
              lserr == FsListdirErr(vfs, FileName)
          IN  th' = [th EXCEPT ![t] =
                IF lserr # "none" THEN RaisesFs(c, lserr)
                ELSE Returns([c EXCEPT !.found = FsListdir(vfs, FileName)], STATUS_SUCCESS)]
  /\ UNCHANGED <<vfs, streams, slot, pending_delete>>
  /\ UnchangedRegistry

\* FindFiles: the names delivered to FillFindData
FindFiles(t) ==
  /\ th[t].pc = "idle"
  /\ \E o \in Slots :
       /\ slot[o].st = "open"
       /\ LET c == CallOn("FindFiles", o)
              FileName == dokanpath2pyfs(c.FileName)
              lserr == FsListdirErr(vfs, FileName)
          IN  th' = [th EXCEPT ![t] =
                IF lserr # "none" THEN RaisesFs(c, lserr)
                ELSE Returns([c EXCEPT !.found =
                                {nm \in FsListdir(vfs, FileName) :
                                   ~is_pending_delete(pending_delete, combine(FileName, nm))}],
                             STATUS_SUCCESS)]
  /\ UNCHANGED <<vfs, streams, slot, pending_delete>>
  /\ UnchangedRegistry

\* the search patterns the driver passes: every name, or one name
Patterns == {<<"*">>} \cup Names
\* DokanIsNameInExpression(SearchPattern, nm, True)
DokanIsNameInExpression(SearchPattern, nm) == SearchPattern = <<"*">> \/ SearchPattern = nm

\* FindFilesWithPattern: the names delivered to FillFindData; the method has no
\* return statement, and handle_fs_errors returns 0 for None
FindFilesWithPattern(t) ==
  /\ th[t].pc = "idle"
  /\ \E o \in Slots : \E pat \in Patterns :
       /\ slot[o].st = "open"
       /\ LET c == [CallOn("FindFilesWithPattern", o) EXCEPT !.SearchPattern = pat]
              FileName == dokanpath2pyfs(c.FileName)
              lserr == FsListdirErr(vfs, FileName)
          IN  th' = [th EXCEPT ![t] =
                IF lserr # "none" THEN RaisesFs(c, lserr)
                ELSE Returns([c EXCEPT !.found =
                                {nm \in FsListdir(vfs, FileName) :
                                   /\ ~is_pending_delete(pending_delete, combine(FileName, nm))
                                   /\ DokanIsNameInExpression(pat, nm)}],
                             WrappedResponse(Interpreter, "None"))]
  /\ UNCHANGED <<vfs, streams, slot, pending_delete>>
  /\ UnchangedRegistry

(* --------------------------- byte-range locks -------------------------- *)
\* A lock is the tuple (handle, start, end) that LockFile appends.
\* FSOperations._check_lock over a list of locks; info: a DokanFileInfo is passed
check_lock(locks, Offset, length, info, Context) ==
  IF \E i \in DOMAIN locks :
       /\ ~(info /\ Context = locks[i][1])
       /\ ~(locks[i][2] >= Offset + length)
       /\ ~(locks[i][3] <= Offset)
    THEN STATUS_LOCK_NOT_GRANTED
    ELSE STATUS_SUCCESS

\* FSOperations._check_lock when no list is passed: the locks stored under FileName
check_lock_stored(al, FileName, Offset, length, Context) ==
  IF ~PathMapHas(al, FileName) THEN STATUS_SUCCESS
  ELSE check_lock(PathMapGet(al, FileName), Offset, length, TRUE, Context)

\* the locks LockFile and UnlockFile find under the name the driver passes
LocksOf(al, FileName) == IF PathMapHas(al, FileName) THEN PathMapGet(al, FileName) ELSE <<>>

\* the status LockFile computes before it appends
LockFileStatus(al, FileName, ByteOffset, Lenght) ==
  IF ~PathMapHas(al, FileName) THEN STATUS_SUCCESS
  ELSE check_lock(PathMapGet(al, FileName), ByteOffset, Lenght, FALSE, 0)

\* LockFile: one section under _files_lock
LockFileOf(t, offs, lens) ==
  /\ th[t].pc = "idle"
  /\ files_lock = 0
  /\ \E o \in Slots, ByteOffset \in offs, Lenght \in lens :
       /\ slot[o].st = "open"
       /\ LET c == [CallOn("LockFile", o) EXCEPT !.Offset = ByteOffset, !.Length = Lenght]
              locks == LocksOf(active_locks, c.FileName)
              status == LockFileStatus(active_locks, c.FileName, ByteOffset, Lenght)
          IN  /\ status # STATUS_SUCCESS \/ Len(locks) < MaxLocks
              /\ IF status # STATUS_SUCCESS
                   THEN /\ th' = [th EXCEPT ![t] = Returns(c, status)]
                        /\ UNCHANGED active_locks
                   ELSE /\ active_locks' =
                             PathMapSet(active_locks, c.FileName,
                                        Append(locks, <<c.Context, ByteOffset, ByteOffset + Lenght>>))
                        /\ th' = [th EXCEPT ![t] = Returns(c, STATUS_SUCCESS)]
  /\ UNCHANGED <<vfs, streams, slot, pending_delete, files_by_handle, next_handle,
                 files_size_written, op_mutex, issued, quiet, watchvars, calls, files_lock, probevars>>

LockFile(t) == LockFileOf(t, 0..MaxOff, 0..(MaxOff + 1))

\* the indices UnlockFile collects in todel: looking at the start only
UnlockMatches_start(locks, Context, ByteOffset, Lenght) ==
  {i \in DOMAIN locks : locks[i][1] = Context /\ locks[i][2] = ByteOffset}

\* the indices UnlockFile collects in todel
UnlockMatches(locks, Context, ByteOffset, Lenght) ==
  {i \in DOMAIN locks :
     locks[i][1] = Context /\ locks[i][2] = ByteOffset /\ locks[i][3] = ByteOffset + Lenght}

\* the list after "del locks[i]" for every i of todel
DelIndices(locks, todel) ==
  LET F[i \in 0..Len(locks)] ==
        IF i = 0 THEN <<>>
        ELSE IF i \in todel THEN F[i - 1] ELSE Append(F[i - 1], locks[i])
  IN  F[Len(locks)]

\* UnlockFile: one section under _files_lock
UnlockFile(t) ==
  /\ th[t].pc = "idle"
  /\ files_lock = 0
  /\ \E o \in Slots, ByteOffset \in 0..MaxOff, Lenght \in 0..(MaxOff + 1) :
       /\ slot[o].st = "open"
       /\ LET c == [CallOn("UnlockFile", o) EXCEPT !.Offset = ByteOffset, !.Length = Lenght]
              locks == LocksOf(active_locks, c.FileName)
              todel == UnlockMatches(locks, c.Context, ByteOffset, Lenght)
          IN  IF ~PathMapHas(active_locks, c.FileName) \/ todel = {}
                THEN /\ th' = [th EXCEPT ![t] = Returns(c, STATUS_NOT_LOCKED)]
                     /\ UNCHANGED active_locks
                ELSE /\ active_locks' =
                          PathMapSet(active_locks, c.FileName, DelIndices(locks, todel))
                     /\ th' = [th EXCEPT ![t] = Returns(c, STATUS_SUCCESS)]
  /\ UNCHANGED <<vfs, streams, slot, pending_delete, files_by_handle, next_handle,
                 files_size_written, op_mutex, issued, quiet, watchvars, calls, files_lock, probevars>>

(* --------------------------- ReadFile, WriteFile ----------------------- *)
\* ReadFile and WriteFile up to lock.acquire(): _get_file
IoCall(t, opname, offs, lens, datas, eofs) ==
  /\ th[t].pc = "idle"
  /\ \E o \in Slots, Offset \in offs, n \in lens, data \in datas, eof \in eofs :
       /\ slot[o].st \in {"open", "cleaned"}
       /\ LET c == [CallOn(opname, o) EXCEPT !.Offset = Offset, !.Length = n, !.Data = data,
                                            !.WriteToEndOfFile = eof]
          IN  th' = [th EXCEPT ![t] =
                      IF GetFileFails(files_by_handle, c.Context) THEN RaisesFs(c, "FSError")
                      ELSE [c EXCEPT !.pc = "lock", !.file = files_by_handle[c.Context].file]]
  /\ UNCHANGED <<vfs, streams, slot, pending_delete>>
  /\ UnchangedRegistry

\* ReadFile and WriteFile from lock.acquire() to file.seek: the lock check, the
\* re-open and _rereg_file of a stream that Cleanup has closed, and the seek to
\* Offset, or to the end of the file for a WriteFile with WriteToEndOfFile
IoLocked(t) ==
  /\ th[t].pc = "lock"
  /\ op_mutex[th[t].Context] = 0
  /\ files_lock = 0
  /\ LET c == th[t]
         FileName == dokanpath2pyfs(c.FileName)
         status == check_lock_stored(active_locks, FileName, c.Offset, c.Length, c.Context)
         mode == streams[c.file].mode
         operr == FsOpenErr(vfs, FileName, mode)
         sid == NewSid(streams)
         opened == With(streams, sid, NewStream(FileName, mode))
         seek(fs, st) == IF c.WriteToEndOfFile THEN Len(StreamBytes(fs, st)) ELSE c.Offset
     IN
     IF status # STATUS_SUCCESS
       THEN /\ th' = [th EXCEPT ![t] = Returns(c, status)]
            /\ UNCHANGED <<vfs, streams, files_by_handle, op_mutex>>
     ELSE IF ~streams[c.file].closed
       THEN /\ streams' = [streams EXCEPT ![c.file].pos = seek(vfs, streams[c.file])]
            /\ th' = [th EXCEPT ![t].pc = "io"]
            /\ op_mutex' = [op_mutex EXCEPT ![c.Context] = t]
            /\ UNCHANGED <<vfs, files_by_handle>>
     ELSE IF operr # "none"
       THEN /\ th' = [th EXCEPT ![t] = RaisesFs(c, operr)]
            /\ UNCHANGED <<vfs, streams, files_by_handle, op_mutex>>
     ELSE /\ Cardinality(DOMAIN streams) <= MaxStreams
          /\ vfs' = FsOpen(vfs, FileName, mode)
          /\ IF c.Context \notin DOMAIN files_by_handle
               THEN /\ th' = [th EXCEPT ![t] = Raises(c, "KeyError")]
                    /\ streams' = opened
                    /\ UNCHANGED <<files_by_handle, op_mutex>>
             ELSE IF ~streams[files_by_handle[c.Context].file].closed
               THEN /\ th' = [th EXCEPT ![t] = Raises(c, "AssertionError")]
                    /\ streams' = opened
                    /\ UNCHANGED <<files_by_handle, op_mutex>>
             ELSE /\ files_by_handle' = [files_by_handle EXCEPT ![c.Context].file = sid]
                  /\ streams' = [opened EXCEPT ![sid].pos = seek(vfs', opened[sid])]
                  /\ th' = [th EXCEPT ![t].pc = "io", ![t].file = sid]
                  /\ op_mutex' = [op_mutex EXCEPT ![c.Context] = t]
  /\ UNCHANGED <<next_handle, files_size_written, active_locks, pending_delete, slot, issued,
                 quiet, watchvars, calls, files_lock, probevars>>

ReadFileOf(t, offs, lens) == IoCall(t, "ReadFile", offs, lens, {<<>>}, {FALSE})
ReadFile(t) == ReadFileOf(t, 0..MaxOff, 1..(MaxOff + 1))
ReadFile_locked(t) == th[t].op = "ReadFile" /\ IoLocked(t)

\* ReadFile from file.read to lock.release()
ReadFile_io(t) ==
  /\ th[t].op = "ReadFile" /\ th[t].pc = "io"
  /\ LET c == th[t]
         f == streams[c.file]
         data == ReadAt(StreamBytes(vfs, f), f.pos, c.Length)
     IN  /\ streams' = [streams EXCEPT ![c.file].pos = f.pos + Len(data)]
         /\ th' = [th EXCEPT ![t] = Returns([c EXCEPT !.out = data], STATUS_SUCCESS)]
         /\ op_mutex' = [op_mutex EXCEPT ![c.Context] = 0]
  /\ UNCHANGED <<vfs, files_by_handle, next_handle, files_size_written, active_locks,
                 pending_delete, slot, issued, quiet, watchvars, calls, files_lock, probevars>>

\* the bytes driver thread t writes
DataOf(t) == <<t>>
WriteFileOf(t, offs) == IoCall(t, "WriteFile", offs, {1}, {DataOf(t)}, {FALSE})
WriteFile(t) == WriteFileOf(t, 0..MaxOff)
WriteFile_locked(t) == th[t].op = "WriteFile" /\ IoLocked(t)

\* WriteFile recording Offset + written whatever was recorded before
WriteFile_io_set(t) ==
  /\ th[t].op = "WriteFile" /\ th[t].pc = "io"
  /\ LET c == th[t]
         f == streams[c.file]
         FileName == dokanpath2pyfs(c.FileName)
         known == PathMapHas(files_size_written, FileName)
                    /\ c.Context \in DOMAIN PathMapGet(files_size_written, FileName)
         sizes == PathMapGet(files_size_written, FileName)
     IN  /\ vfs' = IF f.key \in DOMAIN vfs.files
                     THEN [vfs EXCEPT !.files[f.key] = WriteAt(@, f.pos, c.Data)]
                     ELSE vfs
         /\ streams' = [streams EXCEPT ![c.file].pos = f.pos + Len(c.Data)]
         /\ files_size_written' =
              IF known
                THEN PathMapSet(files_size_written, FileName,
                                [sizes EXCEPT ![c.Context] = c.Offset + Len(c.Data)])
                ELSE files_size_written
         /\ th' = [th EXCEPT ![t] = Returns([c EXCEPT !.out = c.Data], STATUS_SUCCESS)]
         /\ op_mutex' = [op_mutex EXCEPT ![c.Context] = 0]
  /\ UNCHANGED <<files_by_handle, next_handle, active_locks, pending_delete, slot, issued,
                 quiet, watchvars, calls, files_lock, probevars>>

\* WriteFile from file.write to lock.release(): the bytes, the size written
WriteFile_io(t) ==
  /\ th[t].op = "WriteFile" /\ th[t].pc = "io"
  /\ LET c == th[t]
         f == streams[c.file]
         FileName == dokanpath2pyfs(c.FileName)
         known == PathMapHas(files_size_written, FileName)
                    /\ c.Context \in DOMAIN PathMapGet(files_size_written, FileName)
         sizes == PathMapGet(files_size_written, FileName)
     IN  /\ vfs' = IF f.key \in DOMAIN vfs.files
                     THEN [vfs EXCEPT !.files[f.key] = WriteAt(@, f.pos, c.Data)]
                     ELSE vfs
         /\ streams' = [streams EXCEPT ![c.file].pos = f.pos + Len(c.Data)]
         /\ files_size_written' =
              IF known /\ c.Offset + Len(c.Data) > sizes[c.Context]
                THEN PathMapSet(files_size_written, FileName,
                                [sizes EXCEPT ![c.Context] = c.Offset + Len(c.Data)])
                ELSE files_size_written
         /\ th' = [th EXCEPT ![t] = Returns([c EXCEPT !.out = c.Data], STATUS_SUCCESS)]
         /\ op_mutex' = [op_mutex EXCEPT ![c.Context] = 0]
  /\ UNCHANGED <<files_by_handle, next_handle, active_locks, pending_delete, slot, issued,
                 quiet, watchvars, calls, files_lock, probevars>>

(* --------------------------- GetFileInformation ------------------------ *)
\* the largest value of a non-empty set of sizes
MaxOf(S) == CHOOSE x \in S : \A y \in S : y <= x

\* GetFileInformation reporting the size the VFS gives, whatever was written
GetFileInformation_vfs(t) ==
  /\ th[t].pc = "idle"
  /\ \E o \in Slots :
       /\ slot[o].st \in {"open", "cleaned"}
       /\ LET c == CallOn("GetFileInformation", o)
              FileName == dokanpath2pyfs(c.FileName)
          IN  th' = [th EXCEPT ![t] =
                       IF FsGetinfoErr(vfs, FileName) # "none"
                         THEN RaisesFs(c, FsGetinfoErr(vfs, FileName))
                         ELSE Returns([c EXCEPT !.nFileSize = FsGetsize(vfs, FileName),
                                                !.nNumberOfLinks = 1], STATUS_SUCCESS)]
  /\ UNCHANGED <<vfs, streams, slot, pending_delete>>
  /\ UnchangedRegistry

\* GetFileInformation: getinfo, _info2finddataw, the override of the size by the
\* largest size written through a handle of the path, nNumberOfLinks
GetFileInformation(t) ==
  /\ th[t].pc = "idle"
  /\ \E o \in Slots :
       /\ slot[o].st \in {"open", "cleaned"}
       /\ LET c == CallOn("GetFileInformation", o)
              FileName == dokanpath2pyfs(c.FileName)
              reported_size == FsGetsize(vfs, FileName)
              sizes == PathMapGet(files_size_written, FileName)
              written_size == MaxOf({sizes[h] : h \in DOMAIN sizes})
          IN  th' = [th EXCEPT ![t] =
                       IF FsGetinfoErr(vfs, FileName) # "none"
                         THEN RaisesFs(c, FsGetinfoErr(vfs, FileName))
                       ELSE IF ~PathMapHas(files_size_written, FileName)
                         THEN Returns([c EXCEPT !.nFileSize = reported_size,
                                                !.nNumberOfLinks = 1], STATUS_SUCCESS)
                       ELSE IF DOMAIN sizes = {}
                         THEN Raises(c, "ValueError")
                       ELSE Returns([c EXCEPT !.nFileSize = Max(reported_size, written_size),
                                              !.nNumberOfLinks = 1], STATUS_SUCCESS)]
  /\ UNCHANGED <<vfs, streams, slot, pending_delete>>
  /\ UnchangedRegistry

(* --------------------------- the timeout watcher ----------------------- *)
\* The clock is discrete and every step of the watcher and of the wrapper takes no
\* time: Tick is the only action that lets time pass, and time passes only while
\* the watcher is blocked in Condition.wait or in time.sleep.  A record carries its
\* age (now - when) instead of "when", which keeps the state finite; ages stop
\* growing one tick past the wait time.
AgeCap == TIMEOUT_PROTECT_WAIT_TIME + 1

\* wait_time = max(0, _TIMEOUT_PROTECT_WAIT_TIME - now + when)
wait_time(age) == Max(0, TIMEOUT_PROTECT_WAIT_TIME - age)

\* the watcher drops the record after the reset instead of appending it again
Requeue_drop(q, r) == q
\* _TIMEOUT_PROTECT_QUEUE.append((now + wait_time, info, finished)): the sleep is
\* over, so the new "when" is the present
Requeue(q, r) == Append(q, [id |-> r, age |-> 0])

\* the records no wrapper and no queue entry refers to any more
FreeRecords ==
  {r \in Records : /\ r \notin running
                   /\ wrapper[r] = "out"
                   /\ \A i \in DOMAIN protect_queue : protect_queue[i].id # r
                   /\ protect_thread.rec # r}

\* timeout_protect, entry of the wrapper: start the watcher thread if there is
\* none, append (time.time(), info, []) under the condition and notify
TimeoutProtectEnter(r) ==
  /\ r \in FreeRecords
  /\ protect_queue' = Append(protect_queue, [id |-> r, age |-> 0])
  /\ finished' = [finished EXCEPT ![r] = FALSE]
  /\ running' = running \cup {r}
  /\ resets' = [resets EXCEPT ![r] = 0]
  /\ protect_thread' = IF protect_thread.pc \in {"none", "wait"}
                         THEN [protect_thread EXCEPT !.pc = "pop"]
                         ELSE protect_thread
  /\ threads_started' = IF protect_thread.pc = "none" THEN threads_started + 1
                         ELSE threads_started
  /\ UNCHANGED <<adaptervars, calls, probevars, wrapper>>

(* ------------------ the wrapper of timeout_protect, step by step ------- *)
\* wrapper[r] is "out" while record r has no wrapper before its append, "start"
\* when its wrapper has seen _TIMEOUT_PROTECT_THREAD is None and is about to call
\* _start_timeout_protect_thread, "append" when it is about to append the record.

\* wrapper: the test of _TIMEOUT_PROTECT_THREAD, made without the lock
WrapperTest(r) ==
  /\ r \in FreeRecords
  /\ wrapper' = [wrapper EXCEPT ![r] = IF protect_thread.pc = "none" THEN "start" ELSE "append"]
  /\ UNCHANGED <<protect_queue, finished, running, protect_thread, resets, threads_started>>
  /\ UNCHANGED <<adaptervars, calls, probevars>>

\* _start_timeout_protect_thread starting a thread without looking again
WrapperStart_unlocked(r) ==
  /\ wrapper[r] = "start"
  /\ threads_started' = threads_started + 1
  /\ protect_thread' = IF protect_thread.pc = "none" THEN [protect_thread EXCEPT !.pc = "pop"]
                       ELSE protect_thread
  /\ wrapper' = [wrapper EXCEPT ![r] = "append"]
  /\ UNCHANGED <<protect_queue, finished, running, resets>>
  /\ UNCHANGED <<adaptervars, calls, probevars>>

\* _start_timeout_protect_thread: under the lock, the second test, and the start
\* of the thread when there is still none
WrapperStart(r) ==
  /\ wrapper[r] = "start"
  /\ IF protect_thread.pc = "none"
       THEN /\ threads_started' = threads_started + 1
            /\ protect_thread' = [protect_thread EXCEPT !.pc = "pop"]
       ELSE UNCHANGED <<threads_started, protect_thread>>
  /\ wrapper' = [wrapper EXCEPT ![r] = "append"]
  /\ UNCHANGED <<protect_queue, finished, running, resets>>
  /\ UNCHANGED <<adaptervars, calls, probevars>>

\* wrapper: under the condition, the append of (time.time(), info, finished) and
\* the notify, which wakes the watcher when it waits
WrapperAppend(r) ==
  /\ wrapper[r] = "append"
  /\ protect_queue' = Append(protect_queue, [id |-> r, age |-> 0])
  /\ finished' = [finished EXCEPT ![r] = FALSE]
  /\ running' = running \cup {r}
  /\ resets' = [resets EXCEPT ![r] = 0]
  /\ protect_thread' = IF protect_thread.pc = "wait"
                         THEN [protect_thread EXCEPT !.pc = "pop"]
                         ELSE protect_thread
  /\ wrapper' = [wrapper EXCEPT ![r] = "out"]
  /\ UNCHANGED threads_started
  /\ UNCHANGED <<adaptervars, calls, probevars>>

\* timeout_protect, the finally clause: finished.append(True) under the lock.  The
\* watcher holds that lock only within its "lock" step, which is atomic here.
TimeoutProtectExit(r) ==
  /\ r \in running
  /\ finished' = [finished EXCEPT ![r] = TRUE]
  /\ running' = running \ {r}
  /\ UNCHANGED <<protect_queue, protect_thread, resets>>
  /\ UNCHANGED <<adaptervars, calls, probevars, threads_started, wrapper>>

\* _run_timeout_protect_thread: popleft under the condition, or wait on it
WatcherPop ==
  /\ protect_thread.pc = "pop"
  /\ IF protect_queue = <<>>
       THEN /\ protect_thread' = [protect_thread EXCEPT !.pc = "wait"]
            /\ UNCHANGED protect_queue
       ELSE /\ protect_thread' = [pc |-> "check", rec |-> Head(protect_queue).id,
                                  age |-> Head(protect_queue).age, left |-> 0]
            /\ protect_queue' = Tail(protect_queue)
  /\ UNCHANGED <<finished, running, resets>>
  /\ UNCHANGED <<adaptervars, calls, probevars, threads_started, wrapper>>

\* _run_timeout_protect_thread: the first test of finished, then now, wait_time
\* and the call of time.sleep
WatcherCheck ==
  /\ protect_thread.pc = "check"
  /\ protect_thread' =
       IF finished[protect_thread.rec]
         THEN [pc |-> "pop", rec |-> 0, age |-> 0, left |-> 0]
         ELSE [protect_thread EXCEPT !.pc = "sleep", !.left = wait_time(protect_thread.age)]
  /\ UNCHANGED <<protect_queue, finished, running, resets>>
  /\ UNCHANGED <<adaptervars, calls, probevars, threads_started, wrapper>>

\* _run_timeout_protect_thread: time.sleep returns
WatcherWake ==
  /\ protect_thread.pc = "sleep"
  /\ protect_thread.left = 0
  /\ protect_thread' = [protect_thread EXCEPT !.pc = "lock"]
  /\ UNCHANGED <<protect_queue, finished, running, resets>>
  /\ UNCHANGED <<adaptervars, calls, probevars, threads_started, wrapper>>

\* the watcher sending the reset on the strength of its first test of finished
WatcherReset_stale ==
  /\ protect_thread.pc = "lock"
  /\ resets' = [resets EXCEPT ![protect_thread.rec] = 1 - @]
  /\ protect_queue' = Requeue(protect_queue, protect_thread.rec)
  /\ protect_thread' = [pc |-> "pop", rec |-> 0, age |-> 0, left |-> 0]
  /\ UNCHANGED <<finished, running>>
  /\ UNCHANGED <<adaptervars, calls, probevars, threads_started, wrapper>>

\* _run_timeout_protect_thread: under the lock, the second test of finished, then
\* DokanResetTimeout(_TIMEOUT_PROTECT_RESET_TIME, info) and the append
WatcherReset ==
  /\ protect_thread.pc = "lock"
  /\ IF finished[protect_thread.rec]
       THEN UNCHANGED <<protect_queue, resets>>
       ELSE /\ resets' = [resets EXCEPT ![protect_thread.rec] = 1 - @]
            /\ protect_queue' = Requeue(protect_queue, protect_thread.rec)
  /\ protect_thread' = [pc |-> "pop", rec |-> 0, age |-> 0, left |-> 0]
  /\ UNCHANGED <<finished, running>>
  /\ UNCHANGED <<adaptervars, calls, probevars, threads_started, wrapper>>

Watcher == WatcherPop \/ WatcherCheck \/ WatcherWake \/ WatcherReset

\* one tick of the clock: every record ages, the sleep of the watcher shortens
Tick ==
  /\ \/ protect_thread.pc \in {"none", "wait"}
     \/ protect_thread.pc = "sleep" /\ protect_thread.left > 0
  /\ protect_queue' = [i \in DOMAIN protect_queue |->
                         [protect_queue[i] EXCEPT !.age = Min(AgeCap, @ + 1)]]
  /\ protect_thread' = IF protect_thread.pc = "sleep"
                         THEN [protect_thread EXCEPT !.left = @ - 1,
                                                     !.age = Min(AgeCap, @ + 1)]
                         ELSE protect_thread
  /\ UNCHANGED <<finished, running, resets>>
  /\ UNCHANGED <<adaptervars, calls, probevars, threads_started, wrapper>>

(* ---------------------------- specifications --------------------------- *)
\* the life cycle of file objects: create, delete marks, cleanup, close
Next ==
  \E t \in SeqThreads :
    \/ ZwCreateFile(t)
    \/ ZwCreateFile_reg(t)
    \/ Cleanup(t)
    \/ Cleanup_locked(t)
    \/ CloseFile(t)
    \/ CloseFile_locked(t)
    \/ DeleteFile(t)
    \/ DeleteDirectory(t)
    \/ FindFiles(t)
    \/ Return(t)

Spec == Init /\ [][Next]_vars

\* two driver threads opening and closing the file \a concurrently
NextRace ==
  \E t \in Threads :
    \/ ZwCreateFile_a(t)
    \/ ZwCreateFile_reg(t)
    \/ Cleanup(t)
    \/ Cleanup_locked(t)
    \/ CloseFile(t)
    \/ CloseFile_locked(t)
    \/ Return(t)

SpecRace == Init /\ [][NextRace]_vars

\* one driver thread locking and unlocking byte ranges of the file \a
NextLock ==
  \E t \in SeqThreads :
    \/ ZwCreateFile_a(t)
    \/ ZwCreateFile_reg(t)
    \/ LockFile(t)
    \/ UnlockFile(t)
    \/ Return(t)

SpecLock == Init /\ [][NextLock]_vars

\* LockFile, ReadFile and WriteFile on the first bytes of the file
LockFile_n(t) == LockFileOf(t, 0..1, 1..2)
ReadFile_n(t) == ReadFileOf(t, 0..1, {1})
WriteFile_n(t) == WriteFileOf(t, 0..1)

\* one driver thread locking byte ranges of the file \a, reading and writing
NextLockIO ==
  \E t \in SeqThreads :
    \/ ZwCreateFile_a(t)
    \/ ZwCreateFile_reg(t)
    \/ LockFile_n(t)
    \/ ReadFile_n(t)
    \/ ReadFile_locked(t)
    \/ ReadFile_io(t)
    \/ WriteFile_n(t)
    \/ WriteFile_locked(t)
    \/ WriteFile_io(t)
    \/ Return(t)

SpecLockIO == Init /\ [][NextLockIO]_vars

\* the first ZwCreateFile of the session, on the file \a
ZwCreateFile_one(t) ==
  /\ \A o \in Slots : slot[o].st = "free"
  /\ issued = <<>>
  /\ ZwCreateFile_a(t)

\* two driver threads writing through one file object of the file \a
NextIO ==
  \E t \in Threads :
    \/ ZwCreateFile_one(t)
    \/ ZwCreateFile_reg(t)
    \/ WriteFile_n(t)
    \/ WriteFile_locked(t)
    \/ WriteFile_io(t)
    \/ Cleanup(t)
    \/ Cleanup_locked(t)
    \/ CloseFile(t)
    \/ CloseFile_locked(t)
    \/ Return(t)

SpecIO == Init /\ [][NextIO]_vars

\* ZwCreateFile opening what exists, with and without access to the data
ZwCreateFile_mv(t) ==
  ZwCreateFileOf(t, HostPaths, {FILE_OPEN}, {{}, {"FILE_READ_DATA"}}, {{}}, {0})
ReadFile_mv(t) == ReadFileOf(t, {0}, {1})
WriteFile_mv(t) == WriteFileOf(t, {0})

\* one driver thread opening, renaming, reading, writing and closing
NextMove ==
  \E t \in SeqThreads :
    \/ ZwCreateFile_mv(t)
    \/ ZwCreateFile_reg(t)
    \/ MoveFile(t)
    \/ MoveFile_locked(t)
    \/ MoveFile_move(t)
    \/ ReadFile_mv(t)
    \/ ReadFile_locked(t)
    \/ ReadFile_io(t)
    \/ WriteFile_mv(t)
    \/ WriteFile_locked(t)
    \/ WriteFile_io(t)
    \/ Cleanup(t)
    \/ Cleanup_locked(t)
    \/ CloseFile(t)
    \/ CloseFile_locked(t)
    \/ Return(t)

SpecMove == Init /\ [][NextMove]_vars

\* ZwCreateFile opening and creating files and directories, with and without
\* FILE_DELETE_ON_CLOSE
ZwCreateFile_fd(t) ==
  ZwCreateFileOf(t, HostPaths, {FILE_OPEN, FILE_CREATE}, {{"FILE_READ_DATA"}}, OptionMasks, {0, 1})

\* one driver thread creating, deleting and listing
NextFind ==
  \E t \in SeqThreads :
    \/ ZwCreateFile_fd(t)
    \/ ZwCreateFile_reg(t)
    \/ DeleteFile(t)
    \/ DeleteDirectory(t)
    \/ FindFiles(t)
    \/ FindFilesWithPattern(t)
    \/ Cleanup(t)
    \/ Cleanup_locked(t)
    \/ CloseFile(t)
    \/ CloseFile_locked(t)
    \/ Return(t)

SpecFind == Init /\ [][NextFind]_vars

\* wrapped callbacks entering and leaving, the watcher thread and the clock.  The
\* watcher is a running thread, so each of its steps is taken once it stays
\* enabled, and time does not stop; no callback is required to finish.
NextWatch ==
  \/ \E r \in Records : TimeoutProtectEnter(r)
  \/ \E r \in Records : TimeoutProtectExit(r)
  \/ WatcherPop
  \/ WatcherCheck
  \/ WatcherWake
  \/ WatcherReset
  \/ Tick

\* a function wrapped by handle_fs_errors is called: it returns None or raises a
\* VFS error; one interpreter runs all the calls of a behaviour
WrappedCall(py, outcome) ==
  /\ Len(calls) < MaxCalls
  /\ \A i \in DOMAIN calls : calls[i].py = py
  /\ calls' = Append(calls, [py |-> py, outcome |-> outcome,
                             response |-> WrappedResponse(py, outcome)])
  /\ UNCHANGED <<adaptervars, watchvars, probevars>>

NextErr == \E py \in Interpreters : \E outcome \in ErrorKinds \cup {"None"} : WrappedCall(py, outcome)

SpecErr == Init /\ [][NextErr]_vars

SpecWatch == Init /\ [][NextWatch]_vars /\ WF_vars(Watcher) /\ WF_vars(Tick)

\* ZwCreateFile of the file \a for its data, with every disposition
ZwCreateFile_ro(t) ==
  ZwCreateFileOf(t, {HostA}, Dispositions, {{"FILE_READ_DATA"}}, {{}}, {0})

\* one driver thread opening the file \a, reading and writing before and after
\* Cleanup, and closing
NextReopen ==
  \E t \in SeqThreads :
    \/ ZwCreateFile_ro(t)
    \/ ZwCreateFile_reg(t)
    \/ ReadFile_n(t)
    \/ ReadFile_locked(t)
    \/ ReadFile_io(t)
    \/ WriteFile_n(t)
    \/ WriteFile_locked(t)
    \/ WriteFile_io(t)
    \/ Cleanup(t)
    \/ Cleanup_locked(t)
    \/ CloseFile(t)
    \/ CloseFile_locked(t)
    \/ Return(t)

SpecReopen == Init /\ [][NextReopen]_vars

\* ZwCreateFile of the file \a, opening it as it is or overwriting it
ZwCreateFile_ow(t) ==
  ZwCreateFileOf(t, {HostA}, {FILE_OPEN, FILE_OVERWRITE_IF}, {{"FILE_READ_DATA"}}, {{}}, {0})

\* one driver thread writing to the file \a through two file objects and asking
\* for its information
NextInfo ==
  \E t \in SeqThreads :
    \/ ZwCreateFile_ow(t)
    \/ ZwCreateFile_reg(t)
    \/ WriteFile_n(t)
    \/ WriteFile_locked(t)
    \/ WriteFile_io(t)
    \/ GetFileInformation(t)
    \/ Cleanup(t)
    \/ Cleanup_locked(t)
    \/ CloseFile(t)
    \/ CloseFile_locked(t)
    \/ Return(t)

SpecInfo == Init /\ [][NextInfo]_vars

\* WriteFile with WriteToEndOfFile, while the file is short
WriteFile_eof(t) ==
  /\ \A k \in DOMAIN vfs.files : Len(vfs.files[k]) <= MaxOff + 1
  /\ IoCall(t, "WriteFile", 0..1, {1}, {DataOf(t)}, {TRUE})

\* one driver thread writing to the file \a at an offset and at its end
NextSize ==
  \E t \in SeqThreads :
    \/ ZwCreateFile_a(t)
    \/ ZwCreateFile_reg(t)
    \/ WriteFile_n(t)
    \/ WriteFile_eof(t)
    \/ WriteFile_locked(t)
    \/ WriteFile_io(t)
    \/ Cleanup(t)
    \/ Cleanup_locked(t)
    \/ CloseFile(t)
    \/ CloseFile_locked(t)
    \/ Return(t)

SpecSize == Init /\ [][NextSize]_vars

(* --------------------- the conversions, on their own ------------------- *)
\* the strings of at most n characters over an alphabet
StringsOver(alphabet, n) == UNION {[1..k -> alphabet] : k \in 0..n}

\* the host paths the normalizer is given: separators of both kinds, dots, a name
PathInputs == StringsOver({BS, SL, ".", "a"}, MaxPathLen)

\* normpath has raised IllegalBackReference
IllegalBackReference(path) == \E i \in DOMAIN path : path[i] = "!"

\* the dispatcher normalizes the host path it is given
Normalize ==
  /\ conv.n = 0
  /\ conv' = [conv EXCEPT !.n = 1, !.y = dokanpath2pyfs(conv.x)]
  /\ UNCHANGED <<adaptervars, watchvars, calls, pm, times, lockvars>>

\* a normalized path is normalized again
Renormalize ==
  /\ conv.n = 1
  /\ ~IllegalBackReference(conv.y)
  /\ conv' = [conv EXCEPT !.n = 2, !.z = dokanpath2pyfs(conv.y)]
  /\ UNCHANGED <<adaptervars, watchvars, calls, pm, times, lockvars>>

InitNorm ==
  /\ InitAdapter
  /\ conv \in {[NoConv EXCEPT !.x = p] : p \in PathInputs}
  /\ pm = <<>>

NextNorm == Normalize \/ Renormalize

SpecNorm == InitNorm /\ [][NextNorm]_vars

(* --------------------------- time conversion --------------------------- *)
\* Times count in units of 100 ns.  A timestamp (a float of seconds since 1970) is
\* [type |-> "float", t |-> its count of 100 ns since 1970]; a datetime object is
\* [type |-> "datetime", t |-> its count of 100 ns since 1601]; DATETIME_ZERO, the
\* first day of year 1, is a datetime apart from all of these.
None == [type |-> "NoneType"]
DATETIME_ZERO == [type |-> "datetime", t |-> -1]
Datetime(t) == [type |-> "datetime", t |-> t]
Float(t) == [type |-> "float", t |-> t]
\* libdokan.FILETIME(low, high): two DWORD fields
FILETIME(low, high) ==
  [type |-> "FILETIME", dwLowDateTime |-> low % DWORD, dwHighDateTime |-> high % DWORD]
\* the conversion has raised TypeError
TypeError == [type |-> "TypeError"]

\* _timestamp2datetime: datetime.datetime.fromtimestamp(tstamp)
timestamp2datetime(tstamp) == Datetime(FILETIME_UNIX_EPOCH + tstamp.t)

\* _timestamp2filetime: int(TimeStamp * 10000000) is defined for a number only
timestamp2filetime(TimeStamp) ==
  IF TimeStamp.type # "float" THEN TypeError
  ELSE LET f == FILETIME_UNIX_EPOCH + TimeStamp.t IN FILETIME(f % DWORD, f \div DWORD)

\* _filetime2timestamp
filetime2timestamp(FileTime) ==
  LET f == FileTime.dwLowDateTime + FileTime.dwHighDateTime * DWORD
  IN  Float(f - FILETIME_UNIX_EPOCH)

\* _filetime2datetime
filetime2datetime(FileTime) ==
  IF FileTime = None THEN DATETIME_ZERO
  ELSE IF FileTime.dwLowDateTime = 0 /\ FileTime.dwHighDateTime = 0 THEN DATETIME_ZERO
  ELSE timestamp2datetime(filetime2timestamp(FileTime))

\* _datetime2filetime
datetime2filetime(DateTime) ==
  IF DateTime = None THEN FILETIME(0, 0)
  ELSE IF DateTime = DATETIME_ZERO THEN FILETIME(0, 0)
  ELSE timestamp2filetime(DateTime)

\* the counts of 100 ns a FILETIME can hold
Counts == 0..(DWORD * DWORD - 1)
IsFiletime(v) == v.type = "FILETIME"
\* the times the conversions are given: nothing, the sentinel, date-times,
\* timestamps and FILETIME structures
TimeInputs ==
  {None, DATETIME_ZERO} \cup {Datetime(t) : t \in Counts}
    \cup {Float(t - FILETIME_UNIX_EPOCH) : t \in Counts}
    \cup {FILETIME(f % DWORD, f \div DWORD) : f \in Counts}

\* the value the next conversion is applied to
Latest == IF conv.n = 0 THEN conv.x ELSE conv.y

\* _datetime2filetime is applied to a time, or to the outcome of _filetime2datetime
Datetime2Filetime ==
  /\ conv.n < 2 /\ ~IsFiletime(Latest) /\ Latest # TypeError
  /\ conv' = IF conv.n = 0 THEN [conv EXCEPT !.n = 1, !.y = datetime2filetime(conv.x)]
             ELSE [conv EXCEPT !.n = 2, !.z = datetime2filetime(conv.y)]
  /\ UNCHANGED <<adaptervars, watchvars, calls, pm, times, lockvars>>

\* _filetime2datetime is applied to a FILETIME, or to the outcome of _datetime2filetime
Filetime2Datetime ==
  /\ conv.n < 2 /\ IsFiletime(Latest)
  /\ conv' = IF conv.n = 0 THEN [conv EXCEPT !.n = 1, !.y = filetime2datetime(conv.x)]
             ELSE [conv EXCEPT !.n = 2, !.z = filetime2datetime(conv.y)]
  /\ UNCHANGED <<adaptervars, watchvars, calls, pm, times, lockvars>>

InitTime ==
  /\ InitAdapter
  /\ conv \in {[NoConv EXCEPT !.x = v] : v \in TimeInputs}
  /\ pm = <<>>

NextTime == Datetime2Filetime \/ Filetime2Datetime

SpecTime == InitTime /\ [][NextTime]_vars

(* ------------------------ the PathMap, on its own ---------------------- *)
\* PathMap._map is a trie of dictionaries: a dictionary maps a name to the
\* dictionary beneath it, and the empty string to the value stored at its path.
EmptyName == <<>>
EmptyDict == <<>>

\* the dictionary reached from m along the names cs exists
RECURSIVE HasDict(_, _)
HasDict(m, cs) ==
  IF cs = <<>> THEN TRUE
  ELSE Head(cs) \in DOMAIN m /\ HasDict(m[Head(cs)], Tail(cs))

\* the dictionary reached from m along the names cs
RECURSIVE DictAt(_, _)
DictAt(m, cs) == IF cs = <<>> THEN m ELSE DictAt(m[Head(cs)], Tail(cs))

\* PathMap.__contains__: __getitem__ raises no KeyError
contains(m, path) ==
  HasDict(m, iteratepath(path)) /\ EmptyName \in DOMAIN DictAt(m, iteratepath(path))

\* PathMap.__getitem__
getitem(m, path) == DictAt(m, iteratepath(path))[EmptyName]

\* the loop and the last assignment of PathMap.__setitem__
RECURSIVE SetAt(_, _, _)
SetAt(m, cs, value) ==
  IF cs = <<>> THEN With(m, EmptyName, value)
  ELSE With(m, Head(cs),
            SetAt(IF Head(cs) \in DOMAIN m THEN m[Head(cs)] ELSE EmptyDict, Tail(cs), value))

\* __setitem__ splitting the path it is given without resolving "." and ".."
setitem_raw(m, path, value) ==
  LET r == relpath(RStripSl(path))
  IN  SetAt(m, IF r = <<>> THEN <<>> ELSE SplitSl(r), value)
\* PathMap.__setitem__
setitem(m, path, value) == SetAt(m, iteratepath(path), value)

\* the deletion of PathMap.__delitem__ and PathMap.pop: the value goes, and
\* with it every dictionary it leaves empty
RECURSIVE DelAt(_, _)
DelAt(m, cs) ==
  IF cs = <<>> THEN Without(m, EmptyName)
  ELSE LET sub == DelAt(m[Head(cs)], Tail(cs))
       IN  IF DOMAIN sub = {} THEN Without(m, Head(cs)) ELSE With(m, Head(cs), sub)

\* PathMap.__delitem__, where it raises no KeyError
delitem(m, path) == DelAt(m, iteratepath(path))

\* PathMap.pop: the map it leaves
pop(m, path) == IF contains(m, path) THEN DelAt(m, iteratepath(path)) ELSE m

\* the paths used as keys: hello/world and other spellings of it, its parent, a
\* sibling, and the root
MapPaths ==
  {<<"a", "/", "b">>, <<"/", "a", "/", "c", "/", ".", ".", "/", "b">>, <<"/", "a", "/", "b", "/">>,
   <<"a">>, <<"/", "a", "/">>, <<"a", "/", ".", "/", "c">>, <<"/", "a", "/", "c">>, <<"/">>}
MapValues == {41, 42}

\* pm[path] = value
PmSet(path, value) ==
  /\ pm' = [map |-> setitem(pm.map, path, value),
            last |-> [op |-> "set", path |-> path, value |-> value, raised |-> FALSE]]
  /\ UNCHANGED <<adaptervars, watchvars, calls, conv, times, lockvars>>

\* del pm[path]
PmDel(path) ==
  /\ pm' = IF contains(pm.map, path)
             THEN [map |-> delitem(pm.map, path),
                   last |-> [op |-> "del", path |-> path, value |-> 0, raised |-> FALSE]]
             ELSE [map |-> pm.map,
                   last |-> [op |-> "del", path |-> path, value |-> 0, raised |-> TRUE]]
  /\ UNCHANGED <<adaptervars, watchvars, calls, conv, times, lockvars>>

\* pm.pop(path)
PmPop(path) ==
  /\ pm' = [map |-> pop(pm.map, path),
            last |-> [op |-> "pop", path |-> path,
                      value |-> IF contains(pm.map, path) THEN getitem(pm.map, path) ELSE 0,
                      raised |-> FALSE]]
  /\ UNCHANGED <<adaptervars, watchvars, calls, conv, times, lockvars>>

\* PathMap.__init__
InitMap ==
  /\ InitAdapter
  /\ conv = NoConv
  /\ pm = [map |-> EmptyDict,
           last |-> [op |-> "init", path |-> <<>>, value |-> 0, raised |-> FALSE]]

NextMap ==
  \E path \in MapPaths :
    \/ \E value \in MapValues : PmSet(path, value)
    \/ PmDel(path)
    \/ PmPop(path)

SpecMap == InitMap /\ [][NextMap]_vars

\* wrapped callbacks entering step by step, so that several of them see that no
\* watcher thread exists; the watcher, once started, runs, and time does not stop
NextStart ==
  \/ \E r \in Records : WrapperTest(r)
  \/ \E r \in Records : WrapperStart(r)
  \/ \E r \in Records : WrapperAppend(r)
  \/ \E r \in Records : TimeoutProtectExit(r)
  \/ WatcherPop
  \/ WatcherCheck
  \/ WatcherWake
  \/ WatcherReset
  \/ Tick

SpecStart == Init /\ [][NextStart]_vars /\ WF_vars(Watcher) /\ WF_vars(Tick)

\* ZwCreateFile of the file \a, opening or creating it, with and without
\* FILE_DELETE_ON_CLOSE
ZwCreateFile_mx(t) ==
  ZwCreateFileOf(t, {HostA}, {FILE_OPEN, FILE_CREATE}, {{"FILE_READ_DATA"}}, OptionMasks, {0})

\* two driver threads opening, closing and asking for the information of the file
\* \a, with the registry mutex and the lock of the handle taken step by step
NextMutex ==
  \E t \in Threads :
    \/ ZwCreateFile_mx(t)
    \/ ZwCreateFile_reg(t)
    \/ GetFileInformation(t)
    \/ Cleanup(t)
    \/ Cleanup_locked(t)
    \/ CloseFile(t)
    \/ CloseFile_close(t)
    \/ CloseFile_acquire(t)
    \/ CloseFile_pop(t)
    \/ CloseFile_prune(t)
    \/ Return(t)

SpecMutex == Init /\ [][NextMutex]_vars

(* ------------------------------ SetFileTime ---------------------------- *)
\* fs.settimes(path, accessed, modified): a backend without timestamps raises
\* Unsupported, a missing path ResourceNotFound
FsSettimesErr(fs, path, supported) ==
  IF ~supported THEN "Unsupported"
  ELSE IF ~FsExists(fs, path) THEN "ResourceNotFound"
  ELSE "none"
\* the backend's clock, as a datetime
Now == Datetime(2)
\* an access time of None stands for the current time, a modification time of None
\* for the access time
FsSettimes(tm, path, accessed, modified) ==
  LET a == IF accessed = None THEN Now ELSE accessed
      m == IF modified = None THEN a ELSE modified
  IN  (iteratepath(path) :> [accessed |-> a, modified |-> m]) @@ tm

\* the times the driver hands to SetFileTime: a pointer to nothing (None), the
\* sentinel FILETIME(0, 0), and two real times
FileTimeArgs == {None, FILETIME(0, 0), FILETIME(3, 0), FILETIME(4, 0)}

\* what SetFileTime makes of a time argument: None stays None, a FILETIME goes
\* through _filetime2datetime
SetFileTime_arg(FileTime) ==
  IF FileTime = None THEN None ELSE filetime2datetime(FileTime)

\* SetFileTime: the conversion of the two times, settimes, Unsupported swallowed
SetFileTime(t) ==
  /\ th[t].pc = "idle"
  /\ \E o \in Slots, atime \in FileTimeArgs, mtime \in FileTimeArgs, supported \in BOOLEAN :
       /\ slot[o].st \in {"open", "cleaned"}
       /\ LET c == [CallOn("SetFileTime", o) EXCEPT !.LastAccessTime = atime,
                                                    !.LastWriteTime = mtime]
              FileName == dokanpath2pyfs(c.FileName)
              LastAccessTime == SetFileTime_arg(atime)
              LastWriteTime == SetFileTime_arg(mtime)
              err == FsSettimesErr(vfs, FileName, supported)
          IN  /\ th' = [th EXCEPT ![t] =
                          IF err = "none" \/ err = "Unsupported"
                            THEN Returns([c EXCEPT !.fserr = err], STATUS_SUCCESS)
                            ELSE RaisesFs([c EXCEPT !.fserr = err], err)]
              /\ times' = IF err = "none"
                            THEN FsSettimes(times, FileName, LastAccessTime, LastWriteTime)
                            ELSE times
  /\ UNCHANGED <<vfs, streams, slot, pending_delete, conv, pm, lockvars>>
  /\ UNCHANGED <<files_by_handle, next_handle, files_size_written, active_locks, op_mutex,
                 issued, quiet, watchvars, calls, files_lock>>

\* one driver thread opening and closing the file \a, with FILE_DELETE_ON_CLOSE or
\* without, and setting its times
NextTimes ==
  \/ ZwCreateFile_mx(1)
  \/ ZwCreateFile_reg(1)
  \/ SetFileTime(1)
  \/ Cleanup(1)
  \/ Cleanup_locked(1)
  \/ CloseFile(1)
  \/ CloseFile_locked(1)
  \/ Return(1)

SpecTimes == Init /\ [][NextTimes]_vars

\* two driver threads reading and writing through one file object of the file \a,
\* before and after its Cleanup
NextRebind ==
  \E t \in Threads :
    \/ ZwCreateFile_one(t)
    \/ ZwCreateFile_reg(t)
    \/ ReadFile_mv(t)
    \/ ReadFile_locked(t)
    \/ ReadFile_io(t)
    \/ WriteFile_mv(t)
    \/ WriteFile_locked(t)
    \/ WriteFile_io(t)
    \/ Cleanup(t)
    \/ Cleanup_locked(t)
    \/ CloseFile(t)
    \/ CloseFile_locked(t)
    \/ Return(t)

SpecRebind == Init /\ [][NextRebind]_vars

(* ------------------- the locks of a callback, step by step -------------- *)
\* Every acquisition of a lock is a step of its own here, so that a thread can
\* be seen holding one lock while it waits for another.  A section of _files_lock
\* or of _TIMEOUT_PROTECT_LOCK that holds no call that can block is one step from
\* its acquisition to its release wherever the thread holds nothing else.

\* the holder of _TIMEOUT_PROTECT_LOCK that is the watcher thread
TheWatcher == Cardinality(Threads) + 1

\* wrapper: "with _TIMEOUT_PROTECT_COND" is entered, which acquires the lock the
\* condition was built on
Wrapper_enter(t) ==
  /\ wrapped[t] = "out" /\ th[t].pc = "idle"
  /\ protect_lock = 0
  /\ protect_lock' = t
  /\ wrapped' = [wrapped EXCEPT ![t] = "enter"]
  /\ UNCHANGED <<adaptervars, watchvars, calls, conv, pm, times>>

\* wrapper: the record is appended, the condition notified and the lock released;
\* func is called next
Wrapper_append(t) ==
  /\ wrapped[t] = "enter"
  /\ protect_lock' = 0
  /\ wrapped' = [wrapped EXCEPT ![t] = "in"]
  /\ UNCHANGED <<adaptervars, watchvars, calls, conv, pm, times>>

\* wrapper: func has returned or raised; the finally clause acquires
\* _TIMEOUT_PROTECT_LOCK
Wrapper_finally(t) ==
  /\ wrapped[t] = "in" /\ th[t].pc = "ret"
  /\ protect_lock = 0
  /\ protect_lock' = t
  /\ wrapped' = [wrapped EXCEPT ![t] = "exit"]
  /\ UNCHANGED <<adaptervars, watchvars, calls, conv, pm, times>>

\* wrapper: finished.append(True) and the release of the lock
Wrapper_finished(t) ==
  /\ wrapped[t] = "exit"
  /\ protect_lock' = 0
  /\ wrapped' = [wrapped EXCEPT ![t] = "out"]
  /\ UNCHANGED <<adaptervars, watchvars, calls, conv, pm, times>>

\* the watcher thread enters one of its two sections of the lock
Watcher_acquire ==
  /\ protect_lock = 0
  /\ protect_lock' = TheWatcher
  /\ UNCHANGED <<adaptervars, watchvars, calls, conv, pm, times, wrapped>>

\* the watcher thread leaves the section, or waits on the condition, which
\* releases the lock
Watcher_release ==
  /\ protect_lock = TheWatcher
  /\ protect_lock' = 0
  /\ UNCHANGED <<adaptervars, watchvars, calls, conv, pm, times, wrapped>>

\* Cleanup of a file: lock.acquire(), file.close() and, with DeleteOnClose, the
\* removal of the file and of its pending-delete mark; the lock of the handle is
\* kept for _del_file, and released on every other way out
Cleanup_close(t) ==
  /\ th[t].op = "Cleanup" /\ th[t].pc = "lock"
  /\ op_mutex[th[t].Context] = 0
  /\ LET c == th[t]
         FileName == dokanpath2pyfs(c.FileName)
         rmerr == FsRemoveErr(vfs, FileName)
     IN  /\ streams' = [streams EXCEPT ![c.file].closed = TRUE]
         /\ IF ~c.DeleteOnClose
              THEN /\ th' = [th EXCEPT ![t] = Returns(c, STATUS_SUCCESS)]
                   /\ UNCHANGED <<vfs, pending_delete, op_mutex>>
            ELSE IF rmerr # "none"
              THEN /\ th' = [th EXCEPT ![t] = RaisesFs(c, rmerr)]
                   /\ UNCHANGED <<vfs, pending_delete, op_mutex>>
            ELSE /\ vfs' = FsRemove(vfs, FileName)
                 /\ IF FileName \notin pending_delete
                      THEN /\ th' = [th EXCEPT ![t] = Raises(c, "KeyError")]
                           /\ UNCHANGED <<pending_delete, op_mutex>>
                      ELSE /\ pending_delete' = pending_delete \ {FileName}
                           /\ th' = [th EXCEPT ![t].pc = "del"]
                           /\ op_mutex' = [op_mutex EXCEPT ![c.Context] = t]
  /\ UNCHANGED <<files_by_handle, files_size_written, next_handle, active_locks, slot, issued,
                 quiet, watchvars, calls, files_lock, probevars>>

\* ReadFile and WriteFile: lock.acquire()
Io_acquire(t) ==
  /\ th[t].op \in {"ReadFile", "WriteFile"} /\ th[t].pc = "lock"
  /\ op_mutex[th[t].Context] = 0
  /\ op_mutex' = [op_mutex EXCEPT ![th[t].Context] = t]
  /\ th' = [th EXCEPT ![t].pc = "check"]
  /\ UNCHANGED <<vfs, streams, pending_delete, files_by_handle, files_size_written, next_handle,
                 active_locks, slot, issued, quiet, files_lock, watchvars, calls, probevars>>

\* ReadFile and WriteFile under the lock of the handle: _check_lock, which reads
\* the lock table in a section of _files_lock, then the seek on an open stream, or
\* fs.open for a closed one; every way out releases the lock of the handle
Io_check(t) ==
  /\ th[t].op \in {"ReadFile", "WriteFile"} /\ th[t].pc = "check"
  /\ files_lock = 0
  /\ LET c == th[t]
         FileName == dokanpath2pyfs(c.FileName)
         status == check_lock_stored(active_locks, FileName, c.Offset, c.Length, c.Context)
         mode == streams[c.file].mode
         operr == FsOpenErr(vfs, FileName, mode)
         sid == NewSid(streams)
         seek(fs, st) == IF c.WriteToEndOfFile THEN Len(StreamBytes(fs, st)) ELSE c.Offset
     IN
     IF status # STATUS_SUCCESS
       THEN /\ th' = [th EXCEPT ![t] = Returns(c, status)]
            /\ op_mutex' = [op_mutex EXCEPT ![c.Context] = 0]
            /\ UNCHANGED <<vfs, streams>>
     ELSE IF ~streams[c.file].closed
       THEN /\ streams' = [streams EXCEPT ![c.file].pos = seek(vfs, streams[c.file])]
            /\ th' = [th EXCEPT ![t].pc = "io"]
            /\ UNCHANGED <<vfs, op_mutex>>
     ELSE IF operr # "none"
       THEN /\ th' = [th EXCEPT ![t] = RaisesFs(c, operr)]
            /\ op_mutex' = [op_mutex EXCEPT ![c.Context] = 0]
            /\ UNCHANGED <<vfs, streams>>
     ELSE /\ Cardinality(DOMAIN streams) <= MaxStreams
          /\ vfs' = FsOpen(vfs, FileName, mode)
          /\ streams' = With(streams, sid, NewStream(FileName, mode))
          /\ th' = [th EXCEPT ![t].pc = "rereg", ![t].file = sid]
          /\ UNCHANGED op_mutex
  /\ UNCHANGED <<files_by_handle, next_handle, files_size_written, active_locks, pending_delete,
                 slot, issued, quiet, watchvars, calls, files_lock, probevars>>

\* _rereg_file, a section of _files_lock entered under the lock of the handle,
\* and the seek on the new stream
Io_rereg(t) ==
  /\ th[t].op \in {"ReadFile", "WriteFile"} /\ th[t].pc = "rereg"
  /\ files_lock = 0
  /\ LET c == th[t]
         seek(fs, st) == IF c.WriteToEndOfFile THEN Len(StreamBytes(fs, st)) ELSE c.Offset
     IN
     IF c.Context \notin DOMAIN files_by_handle
       THEN /\ th' = [th EXCEPT ![t] = Raises(c, "KeyError")]
            /\ op_mutex' = [op_mutex EXCEPT ![c.Context] = 0]
            /\ UNCHANGED <<files_by_handle, streams>>
     ELSE IF ~streams[files_by_handle[c.Context].file].closed
       THEN /\ th' = [th EXCEPT ![t] = Raises(c, "AssertionError")]
            /\ op_mutex' = [op_mutex EXCEPT ![c.Context] = 0]
            /\ UNCHANGED <<files_by_handle, streams>>
     ELSE /\ files_by_handle' = [files_by_handle EXCEPT ![c.Context].file = c.file]
          /\ streams' = [streams EXCEPT ![c.file].pos = seek(vfs, streams[c.file])]
          /\ th' = [th EXCEPT ![t].pc = "io"]
          /\ UNCHANGED op_mutex
  /\ UNCHANGED <<vfs, next_handle, files_size_written, active_locks, pending_delete, slot,
                 issued, quiet, watchvars, calls, files_lock, probevars>>

\* the first ZwCreateFile of the session: the file \a is opened, with
\* FILE_DELETE_ON_CLOSE or without
ZwCreateFile_lv(t) ==
  /\ \A o \in Slots : slot[o].st = "free"
  /\ issued = <<>>
  /\ ZwCreateFileOf(t, {HostA}, {FILE_OPEN}, {{"FILE_READ_DATA"}}, OptionMasks, {0})

\* a step of driver thread t inside a wrapped callback that the driver has
\* delivered: the rest of the wrapper's first section, the steps of ZwCreateFile,
\* ReadFile, Cleanup and CloseFile under their locks, the finally clause
CallbackStep(t) ==
  \/ Wrapper_append(t)
  \/ ZwCreateFile_reg(t)
  \/ Io_acquire(t)
  \/ Io_check(t)
  \/ Io_rereg(t)
  \/ ReadFile_io(t)
  \/ Cleanup_close(t)
  \/ CloseFile_close(t)
  \/ CloseFile_acquire(t)
  \/ CloseFile_pop(t)
  \/ CloseFile_prune(t)
  \/ Wrapper_finally(t)
  \/ Wrapper_finished(t)

\* the driver delivers a call on the file \a to thread t, which enters the wrapper
\* and then the callback, or takes the result of one; no ReadFile is delivered
\* that could need more streams than the model holds
DriverStep(t) ==
  \/ Wrapper_enter(t)
  \/ wrapped[t] = "in" /\ ZwCreateFile_lv(t)
  \/ wrapped[t] = "in" /\ LockFileOf(t, {0}, {1})
  \/ wrapped[t] = "in" /\ Cardinality(DOMAIN streams) < MaxStreams /\ ReadFile_mv(t)
  \/ wrapped[t] = "in" /\ Cleanup(t)
  \/ wrapped[t] = "in" /\ CloseFile(t)
  \/ wrapped[t] = "out" /\ Return(t)

\* thread t can take its next step inside the callback: it holds what it needs,
\* or the lock it is about to acquire is free
CanStep(t) ==
  \/ wrapped[t] \in {"enter", "exit"}
  \/ wrapped[t] = "in" /\ th[t].pc = "ret" /\ protect_lock = 0
  \/ th[t].pc = "lock" /\ op_mutex[th[t].Context] = 0
  \/ th[t].pc \in {"reg", "check", "rereg", "del"} /\ files_lock = 0
  \/ th[t].pc \in {"pop", "prune", "io"}

NextLive ==
  \/ \E t \in Threads : CallbackStep(t) \/ DriverStep(t)
  \/ Watcher_acquire
  \/ Watcher_release

\* A thread inside a callback goes on running, and every VFS call returns: a
\* thread whose next step is possible again and again takes it in the end (the
\* operating system wakes a thread blocked in acquire when the lock is released).
\* This is strong fairness of CallbackStep(t), written with CanStep(t), the
\* condition under which the step is enabled.  The watcher leaves each section of
\* its lock.  The driver is free to deliver no more calls.
SpecLive ==
  /\ Init /\ [][NextLive]_vars
  /\ \A t \in Threads : []<>CanStep(t) => []<><<CallbackStep(t)>>_vars
  /\ WF_vars(Watcher_release)

\* ZwCreateFile opening the file \a, with FILE_DELETE_ON_CLOSE or without
ZwCreateFile_tb(t) ==
  ZwCreateFileOf(t, {HostA}, {FILE_OPEN}, {{"FILE_READ_DATA"}}, OptionMasks, {0})

\* a driver thread opening the file \a several times and closing it, with
\* _del_file of Cleanup and CloseFile taken step by step
OpenClose(t) ==
  \/ ZwCreateFile_tb(t)
  \/ ZwCreateFile_reg(t)
  \/ Cleanup(t)
  \/ Cleanup_close(t)
  \/ CloseFile(t)
  \/ CloseFile_close(t)
  \/ CloseFile_acquire(t)
  \/ CloseFile_pop(t)
  \/ CloseFile_prune(t)
  \/ Return(t)

\* two driver threads opening and closing; the renames are delivered to the
\* first of them
NextTables ==
  \/ \E t \in Threads : OpenClose(t)
  \/ MoveFile(1)
  \/ MoveFile_locked(1)
  \/ MoveFile_move(1)

SpecTables == Init /\ [][NextTables]_vars

\* one driver thread opening the file \a, locking byte ranges of it and closing it
NextLockClose ==
  \E t \in SeqThreads :
    \/ ZwCreateFile_a(t)
    \/ ZwCreateFile_reg(t)
    \/ LockFile_n(t)
    \/ UnlockFile(t)
    \/ Cleanup(t)
    \/ Cleanup_locked(t)
    \/ CloseFile(t)
    \/ CloseFile_locked(t)
    \/ Return(t)

SpecLockClose == Init /\ [][NextLockClose]_vars

(* ------------------------------ SetEndOfFile --------------------------- *)
\* the bytes of a file after file.truncate() at position pos (a gap is zero filled)
TruncateAt(bytes, pos) ==
  IF pos > Len(bytes) THEN bytes \o Zeros(pos - Len(bytes)) ELSE SubSeq(bytes, 1, pos)

\* SetEndOfFile up to lock.acquire(): _dokanpath2pyfs, _get_file
SetEndOfFileOf(t, sizes) ==
  /\ th[t].pc = "idle"
  /\ \E o \in Slots, AllocSize \in sizes :
       /\ slot[o].st \in {"open", "cleaned"}
       /\ LET c == [CallOn("SetEndOfFile", o) EXCEPT !.AllocSize = AllocSize]
          IN  th' = [th EXCEPT ![t] =
                      IF GetFileFails(files_by_handle, c.Context) THEN RaisesFs(c, "FSError")
                      ELSE [c EXCEPT !.pc = "lock", !.file = files_by_handle[c.Context].file]]
  /\ UNCHANGED <<vfs, streams, slot, pending_delete>>
  /\ UnchangedRegistry

SetEndOfFile(t) == SetEndOfFileOf(t, 0..(MaxOff + 1))

\* SetEndOfFile from lock.acquire() to lock.release(): tell, seek to AllocSize,
\* truncate, and the seek back of a position that was before AllocSize; a stream
\* that Cleanup has closed raises ValueError at file.tell()
SetEndOfFile_locked(t) ==
  /\ th[t].op = "SetEndOfFile" /\ th[t].pc = "lock"
  /\ op_mutex[th[t].Context] = 0
  /\ LET c == th[t]
         f == streams[c.file]
         pos == f.pos
         sought == IF c.AllocSize # pos THEN c.AllocSize ELSE pos
     IN  IF f.closed
           THEN /\ th' = [th EXCEPT ![t] = Raises(c, "ValueError")]
                /\ UNCHANGED <<vfs, streams>>
           ELSE /\ vfs' = IF f.key \in DOMAIN vfs.files
                            THEN [vfs EXCEPT !.files[f.key] = TruncateAt(@, sought)]
                            ELSE vfs
                /\ streams' = [streams EXCEPT ![c.file].pos =
                                 IF pos < c.AllocSize THEN Min(pos, c.AllocSize) ELSE sought]
                /\ th' = [th EXCEPT ![t] = Returns(c, STATUS_SUCCESS)]
  /\ UNCHANGED <<files_by_handle, next_handle, files_size_written, active_locks, op_mutex,
                 pending_delete, slot, issued, quiet, watchvars, calls, files_lock, probevars>>

\* one driver thread writing to the file \a, setting its end and asking for its size
NextEnd ==
  \E t \in SeqThreads :
    \/ ZwCreateFile_tb(t)
    \/ ZwCreateFile_reg(t)
    \/ WriteFile_n(t)
    \/ WriteFile_locked(t)
    \/ WriteFile_io(t)
    \/ SetEndOfFile(t)
    \/ SetEndOfFile_locked(t)
    \/ GetFileInformation(t)
    \/ Cleanup(t)
    \/ Cleanup_locked(t)
    \/ CloseFile(t)
    \/ CloseFile_locked(t)
    \/ Return(t)

SpecEnd == Init /\ [][NextEnd]_vars

(* ============================== claims ================================ *)
\* the VFS path of the callback a thread runs
PathOf(c) == dokanpath2pyfs(c.FileName)
\* thread t enters callback opname in this step
Calls(t, opname) == th[t].pc = "idle" /\ th'[t].op = opname
\* thread t has returned from callback opname and the driver has not yet taken the result
Returned(t, opname) == th[t].op = opname /\ th[t].pc = "ret"

\* C1: every value written to a context is 0 or an integer >= 100, and no two
\* handle registrations of a session return the same integer, whether they run
\* concurrently or one after the other, and also after handles were unregistered.
C1_HandlesUnique ==
  /\ \A i, j \in DOMAIN issued : i # j => issued[i] # issued[j]
  /\ \A i \in DOMAIN issued : issued[i] >= MinimumFileHandler
  /\ \A t \in Threads : th[t].Context = 0 \/ th[t].Context >= MinimumFileHandler
  /\ \A o \in Slots : slot[o].UserContext = 0 \/ slot[o].UserContext >= MinimumFileHandler
  /\ \A o1, o2 \in Slots :
       o1 # o2 /\ slot[o1].UserContext # 0 => slot[o1].UserContext # slot[o2].UserContext

\* a handle was registered after an earlier one had been unregistered
C1_Witness ==
  \E i, j \in DOMAIN issued :
    i < j /\ issued[i] \notin DOMAIN files_by_handle /\ issued[j] \in DOMAIN files_by_handle

\* the bytes of a file after one whole WriteFile through a registered stream
\* that is open, or closed and re-opened in its mode
WholeWrite(bytes, closed, mode, Offset, data) ==
  WriteAt(IF closed /\ mode = "w+b" THEN <<>> ELSE bytes, Offset, data)

\* two threads have each run one WriteFile on the same registered handle since
\* the last state without a running callback, and both have returned
TwoWrites(t1, t2) ==
  /\ t1 # t2
  /\ Returned(t1, "WriteFile") /\ Returned(t2, "WriteFile")
  /\ th[t1].slot = th[t2].slot /\ th[t1].Context = th[t2].Context
  /\ th[t1].Context \in DOMAIN quiet.reg
  /\ iteratepath(PathOf(th[t1])) \in DOMAIN quiet.files
  /\ ~quiet.returned

\* C2 (as claimed): two WriteFile calls delivered concurrently on one handle
\* both succeed and leave the file with the bytes that the two whole writes, run
\* one after the other in one of the two orders, produce.
C2_WritesSerialized ==
  \A t1, t2 \in Threads :
    TwoWrites(t1, t2) =>
      LET r == quiet.reg[th[t1].Context]
          key == iteratepath(PathOf(th[t1]))
          One(t) == WholeWrite(quiet.files[key], r.closed, r.mode, th[t].Offset, th[t].Data)
          Both(ta, tb) == WriteAt(One(ta), th[tb].Offset, th[tb].Data)
      IN  /\ th[t1].exc = "none" /\ th[t1].ret = STATUS_SUCCESS
          /\ th[t2].exc = "none" /\ th[t2].ret = STATUS_SUCCESS
          /\ key \in DOMAIN vfs.files
          /\ vfs.files[key] \in {Both(t1, t2), Both(t2, t1)}

\* list p is a prefix of list q
IsPrefix(p, q) == Len(p) <= Len(q) /\ SubSeq(q, 1, Len(p)) = p
\* the normalized absolute path q is path or an ancestor of path
IsAncestor(q, path) ==
  \/ q = path
  \/ q = <<SL>>
  \/ IsPrefix(q \o <<SL>>, path)
\* path or one of its ancestors is in the pending-delete set
AncestorPending(path) == \E q \in pending_delete : IsAncestor(q, path)

\* C3: when the path or an ancestor of it is pending delete, ZwCreateFile returns
\* ACCESS_DENIED for every disposition and access mask and changes neither the
\* VFS, the registry nor the context; FindFiles delivers no such child and
\* DeleteDirectory counts every such child as deleted.
C3_PendingDeleteDenied ==
  [][\A t \in Threads :
       /\ (Calls(t, "ZwCreateFile") /\ AncestorPending(PathOf(th'[t])))
            => /\ Returned(t, "ZwCreateFile")'
               /\ th'[t].ret = STATUS_ACCESS_DENIED /\ th'[t].exc = "none"
               /\ th'[t].Context = 0
               /\ UNCHANGED <<vfs, streams, files_by_handle, next_handle, files_size_written,
                              issued, pending_delete>>
       /\ (Calls(t, "FindFiles") /\ th'[t].ret = STATUS_SUCCESS)
            => \A nm \in th'[t].found : ~AncestorPending(combine(PathOf(th'[t]), nm))
       /\ (Calls(t, "DeleteDirectory") /\ FsIsDir(vfs, PathOf(th'[t]))
             /\ \A nm \in FsListdir(vfs, PathOf(th'[t])) :
                  AncestorPending(combine(PathOf(th'[t]), nm)))
            => th'[t].ret = STATUS_SUCCESS
    ]_vars

\* ZwCreateFile was refused for a path that is not itself marked: its parent is
C3_Witness ==
  \E t \in Threads :
    /\ Returned(t, "ZwCreateFile") /\ th[t].ret = STATUS_ACCESS_DENIED
    /\ PathOf(th[t]) \notin pending_delete
    /\ AncestorPending(PathOf(th[t]))

\* C4 (as claimed): after Cleanup with DeleteOnClose of an open file handle the
\* stream is closed, the VFS has no such file, the path is not pending delete,
\* the handle is unregistered and the context is 0.
C4_CleanupDeletes ==
  \A t \in Threads :
    (Returned(t, "Cleanup") /\ th[t].DeleteOnClose /\ th[t].IsDirectory = 0 /\ th[t].file # 0)
      => /\ streams[th[t].file].closed
         /\ ~FsIsFile(vfs, PathOf(th[t]))
         /\ PathOf(th[t]) \notin pending_delete
         /\ slot[th[t].slot].UserContext \notin DOMAIN files_by_handle
         /\ th[t].Context = 0

C6_ClearedByCleanup ==
  \A t \in Threads :
    (/\ Returned(t, "Cleanup")
     /\ \A o \in Slots : (o # th[t].slot /\ slot[o].name = th[t].FileName)
                           => slot[o].st \notin {"creating", "open"})
      => PathOf(th[t]) \notin pending_delete

\* C7 (as claimed): whenever ZwCreateFile opens or creates its target with
\* FILE_DELETE_ON_CLOSE, the path is pending delete when the call returns.
C7_DeleteOnCloseMarks ==
  \A t \in Threads :
    (/\ Returned(t, "ZwCreateFile") /\ th[t].exc = "none"
     /\ "FILE_DELETE_ON_CLOSE" \in th[t].Options
     /\ \/ th[t].Context # 0
        \/ th[t].ret = STATUS_SUCCESS /\ FsExists(vfs, PathOf(th[t])))
      => PathOf(th[t]) \in pending_delete

\* the byte ranges [a, b) and [a2, b2) have a byte in common
Overlap(a, b, a2, b2) == Max(a, a2) < Min(b, b2)

\* a lock of the list belongs to another handle than h and overlaps [a, b)
ForeignLock(locks, h, a, b) ==
  \E i \in DOMAIN locks : locks[i][1] # h /\ Overlap(a, b, locks[i][2], locks[i][3])

\* C8 (as claimed): a LockFile request (h, a, b) is refused if and only if a
\* lock of a different handle on the path overlaps [a, b); a handle that
\* re-locks a range overlapping only its own locks is granted.
C8_LockGrantedIff ==
  \A t \in Threads :
    Returned(t, "LockFile") =>
      th[t].ret = IF ForeignLock(LocksOf(active_locks, th[t].FileName), th[t].Context,
                                 th[t].Offset, th[t].Offset + th[t].Length)
                    THEN STATUS_LOCK_NOT_GRANTED
                    ELSE STATUS_SUCCESS

\* C9 (as claimed): ReadFile and WriteFile through a handle return
\* LOCK_NOT_GRANTED when another handle holds a lock on the file that overlaps
\* the requested range.
C9_LockBlocksIO ==
  \A t \in Threads :
    (/\ Returned(t, "ReadFile") \/ Returned(t, "WriteFile")
     /\ ForeignLock(LocksOf(active_locks, th[t].FileName), th[t].Context,
                    th[t].Offset, th[t].Offset + th[t].Length))
      => th[t].ret = STATUS_LOCK_NOT_GRANTED

\* C10: UnlockFile(h, offset, len) returns NOT_LOCKED and leaves the lock table
\* unchanged unless the path holds the lock (h, offset, offset+len); otherwise it
\* returns success, removes that lock, leaves every other lock in place, and
\* LockFile on that range then finds no conflict.
C10_UnlockExact ==
  [][\A t \in Threads :
       Calls(t, "UnlockFile") =>
         LET c == th'[t]
             locks == LocksOf(active_locks, c.FileName)
             lk == <<c.Context, c.Offset, c.Offset + c.Length>>
         IN  /\ Returned(t, "UnlockFile")' /\ c.exc = "none"
             /\ IF \A i \in DOMAIN locks : locks[i] # lk
                  THEN /\ c.ret = STATUS_NOT_LOCKED
                       /\ active_locks' = active_locks
                  ELSE /\ c.ret = STATUS_SUCCESS
                       /\ LocksOf(active_locks', c.FileName) = SelectSeq(locks, LAMBDA l : l # lk)
                       /\ \A k \in DOMAIN active_locks \ {iteratepath(c.FileName)} :
                            k \in DOMAIN active_locks' /\ active_locks'[k] = active_locks[k]
                       /\ LockFileStatus(active_locks', c.FileName, c.Offset, c.Length)
                            = STATUS_SUCCESS
    ]_vars

\* UnlockFile has removed a lock and another lock of the path is still held
C10_Witness ==
  \E t \in Threads :
    /\ Returned(t, "UnlockFile") /\ th[t].ret = STATUS_SUCCESS
    /\ Len(LocksOf(active_locks, th[t].FileName)) >= 1

\* the age of record r, wherever it is: in the queue or held by the watcher
AgeOf(r) ==
  IF protect_thread.rec = r THEN protect_thread.age
  ELSE LET I == {i \in DOMAIN protect_queue : protect_queue[i].id = r}
       IN  IF I = {} THEN 0 ELSE protect_queue[CHOOSE i \in I : TRUE].age

\* C11: a record enqueued with finished = false whose callback stays unfinished gets
\* DokanResetTimeout called with its info again and again, whatever other records
\* are queued: from every state where it is unfinished, either its callback
\* finishes or one more reset is sent for it; and the time since it was enqueued
\* or last reset never exceeds the wait time.
C11_WatcherResets ==
  /\ [](\A r \in running : AgeOf(r) <= TIMEOUT_PROTECT_WAIT_TIME)
  /\ \A r \in Records : \A b \in {0, 1} :
        (r \in running /\ resets[r] = b) ~> (r \notin running \/ resets[r] # b)
\* a record is about to be reset a second time while the record of another
\* unfinished callback is queued
C11_Witness ==
  /\ protect_thread.pc = "lock"
  /\ protect_thread.rec \in running
  /\ resets[protect_thread.rec] = 1
  /\ \E i \in DOMAIN protect_queue : protect_queue[i].id \in running

\* the status the error table assigns to each kind of VFS error
StatusTable(kind) ==
  CASE kind = "ResourceNotFound" -> ENOENT
    [] kind \in {"ResourceInvalid", "FileExpected", "DirectoryExpected"} -> EINVAL
    [] kind \in {"PermissionDenied", "ResourceLocked"} -> STATUS_ACCESS_DENIED
    [] kind = "DirectoryNotEmpty" -> STATUS_DIRECTORY_NOT_EMPTY
    [] kind = "DestinationExists" -> STATUS_OBJECT_NAME_COLLISION
    [] kind = "InsufficientStorage" -> ENOSPC
    [] kind = "RemoteConnectionError" -> ENETDOWN
    [] kind = "Unsupported" -> STATUS_NOT_SUPPORTED
    [] OTHER -> EFAULT

\* C12: the status of a wrapped callback whose VFS operation raises a VFS error is a
\* function of the kind of the error alone: ENOENT for not found, EINVAL for
\* invalid, ACCESS_DENIED for permission denied and for locked, DIRECTORY_NOT_EMPTY,
\* OBJECT_NAME_COLLISION for an existing destination, ENOSPC, ENETDOWN,
\* NOT_SUPPORTED, and EFAULT for every other VFS error.
C12_StatusOfErrorKind ==
  \A i \in DOMAIN calls :
    calls[i].outcome \in ErrorKinds => calls[i].response = StatusTable(calls[i].outcome)

\* the callback record c is of a call that looks its context up in the registry
LooksUp(c) ==
  /\ c.op \in {"Cleanup", "CloseFile", "MoveFile", "ReadFile", "WriteFile"}
  /\ c.op = "Cleanup" => c.IsDirectory = 0
  /\ c.op \in {"CloseFile", "MoveFile"} => c.Context >= MinimumFileHandler

\* C13: a callback that looks up a context the handle registry does not hold (a
\* Cleanup, CloseFile, ReadFile or WriteFile after MoveFile or CloseFile has
\* unregistered the handle) returns STATUS_ACCESS_DENIED and changes nothing in
\* the VFS, the streams, the registry, the locks or the pending-delete set.
C13_InvalidHandleDenied ==
  [][\A t \in Threads :
       (th[t].pc = "idle" /\ LooksUp(th'[t])
          /\ GetFileFails(files_by_handle, th'[t].Context))
         => /\ th'[t].pc = "ret" /\ th'[t].exc = "none"
            /\ th'[t].ret = STATUS_ACCESS_DENIED
            /\ UNCHANGED <<vfs, streams, files_by_handle, next_handle, files_size_written,
                           active_locks, pending_delete>>]_vars

\* C14: against a VFS that fails only with VFS errors, every callback returns a
\* status to the driver (0 when the callback body returns None) and no exception
\* leaves a callback.
C14_NoExceptionEscapes ==
  \A t \in Threads : th[t].pc = "ret" => th[t].exc = "none"

\* the VFS path of each name the driver passes
HostPath == [fn \in HostPaths |-> dokanpath2pyfs(fn)]

\* thread t calls ZwCreateFile on path p in this step and the call takes the file
\* branch: p is not pending delete, is no directory, and IsDirectory is not 1
CreatesFile(t, p) ==
  /\ Calls(t, "ZwCreateFile")
  /\ th'[t].IsDirectory = 0
  /\ ~FsIsDir(vfs, p)
  /\ ~AncestorPending(p)

\* the call of thread t is refused by the disposition table: FILE_OPEN or
\* FILE_OVERWRITE of a missing file, FILE_CREATE of an existing one
RefusedByTable(t, p) ==
  IF th'[t].Disp = FILE_CREATE THEN FsExists(vfs, p)
  ELSE th'[t].Disp \in {FILE_OPEN, FILE_OVERWRITE} /\ ~FsExists(vfs, p)

\* nothing is opened: no stream, no handle, no context, the VFS as it was
NothingOpened(t) ==
  /\ th'[t].pc = "ret" /\ th'[t].exc = "none"
  /\ th'[t].Context = 0
  /\ UNCHANGED <<vfs, streams, files_by_handle, next_handle, files_size_written>>

\* the refusal: ERROR_ALREADY_EXISTS for FILE_CREATE, FILE_DOES_NOT_EXIST otherwise
Refusal(t) ==
  /\ NothingOpened(t)
  /\ th'[t].ret = IF th'[t].Disp = FILE_CREATE THEN ERROR_ALREADY_EXISTS
                  ELSE FILE_DOES_NOT_EXIST

\* the open: one new stream on the path, r+b for FILE_OPEN and w+b otherwise
Opening(t, p) ==
  /\ th'[t].pc = "reg" /\ th'[t].exc = "none"
  /\ th'[t].file \notin DOMAIN streams
  /\ DOMAIN streams' = DOMAIN streams \cup {th'[t].file}
  /\ streams'[th'[t].file].key = iteratepath(p)
  /\ streams'[th'[t].file].mode = (IF th'[t].Disp = FILE_OPEN THEN "r+b" ELSE "w+b")
  /\ ~streams'[th'[t].file].closed

\* the rest of a call that opened: one new handle for the stream, written to the
\* context, and the status of the table
Registering(t) ==
  (th[t].pc = "reg" /\ th'[t].pc # "reg" /\ th[t].op = "ZwCreateFile")
    => /\ th'[t].pc = "ret" /\ th'[t].exc = "none"
       /\ th'[t].Context >= MinimumFileHandler
       /\ th'[t].Context \notin DOMAIN files_by_handle
       /\ DOMAIN files_by_handle' = DOMAIN files_by_handle \cup {th'[t].Context}
       /\ files_by_handle'[th'[t].Context].file = th[t].file
       /\ th'[t].ret = (CASE th[t].Disp = FILE_OVERWRITE_IF -> FILE_OVERWRITTEN
                          [] th[t].Disp = FILE_SUPERSEDE -> FILE_SUPERSEDED
                          [] OTHER -> 0)

\* C15 as stated: ZwCreateFile on a file target follows the disposition table.
\* FILE_OPEN and FILE_OVERWRITE of a missing file fail and FILE_CREATE of an
\* existing file returns ERROR_ALREADY_EXISTS, with no handle, no context and no
\* change of content; in every other case the file is opened r+b (FILE_OPEN) or
\* w+b, one new handle is registered and written to the context, and the result is
\* 0, FILE_OVERWRITTEN for FILE_OVERWRITE_IF or FILE_SUPERSEDED for FILE_SUPERSEDE.
C15_DispositionTable_stated ==
  [][\A t \in Threads :
       /\ th[t].pc = "idle" /\ th'[t].pc # "idle" =>
            LET p == HostPath[th'[t].FileName] IN
            CreatesFile(t, p) => IF RefusedByTable(t, p) THEN Refusal(t) ELSE Opening(t, p)
       /\ Registering(t)]_vars

\* C15: the same table, for a call whose DesiredAccess is not zero and whose
\* fs.open raises no error.  With DesiredAccess zero every disposition returns
\* FILE_DOES_NOT_EXIST, and an error of fs.open is returned as its status; both
\* register no handle and leave context and content alone.
C15_DispositionTable ==
  [][\A t \in Threads :
       /\ th[t].pc = "idle" /\ th'[t].pc # "idle" =>
            LET p == HostPath[th'[t].FileName]
                operr == FsOpenErr(vfs, p, CreateMode(th'[t].Disp))
            IN
            CreatesFile(t, p) =>
              IF th'[t].Access = {}
                THEN NothingOpened(t) /\ th'[t].ret = FILE_DOES_NOT_EXIST
              ELSE IF RefusedByTable(t, p) THEN Refusal(t)
              ELSE IF operr # "none"
                THEN NothingOpened(t) /\ th'[t].ret = handle_fs_errors(operr)
              ELSE Opening(t, p)
       /\ Registering(t)]_vars
\* a FILE_OVERWRITE_IF of an existing file has returned FILE_OVERWRITTEN with its
\* new handle in the context
C15_Witness ==
  \E t \in Threads :
    /\ Returned(t, "ZwCreateFile") /\ th[t].Disp = FILE_OVERWRITE_IF
    /\ th[t].ret = FILE_OVERWRITTEN
    /\ th[t].Context \in DOMAIN files_by_handle
    /\ files_by_handle[th[t].Context].file = th[t].file
    /\ streams[th[t].file].mode = "w+b"

\* C16: a ZwCreateFile whose DesiredAccess has none of FILE_READ_DATA,
\* FILE_WRITE_DATA, FILE_APPEND_DATA, FILE_EXECUTE and whose disposition is
\* FILE_OPEN or FILE_CREATE treats the target as a directory: it opens no stream
\* and registers no handle, and FILE_CREATE of a missing path makes a directory.
C16_NoDataAccessIsDirectory ==
  [][\A t \in Threads :
       (/\ Calls(t, "ZwCreateFile")
        /\ th'[t].Access \cap DataAccessBits = {}
        /\ th'[t].Disp \in {FILE_OPEN, FILE_CREATE}
        /\ ~is_pending_delete(pending_delete, PathOf(th'[t])))
         => /\ th'[t].pc = "ret"
            /\ th'[t].Context = 0
            /\ UNCHANGED <<streams, files_by_handle, next_handle>>
            /\ (th'[t].Disp = FILE_CREATE /\ ~FsExists(vfs, PathOf(th'[t]))
                   /\ FsMakedirErr(vfs, PathOf(th'[t])) = "none")
                 => FsIsDir(vfs', PathOf(th'[t]))]_vars

\* the post-close size table has an entry for handle h under path
HasSizeEntry(fsw, path, h) == PathMapHas(fsw, path) /\ h \in DOMAIN PathMapGet(fsw, path)

NewPathOf(c) == dokanpath2pyfs(c.NewFileName)

\* C18: a MoveFile whose context holds an open handle closes the stream of the
\* handle and unregisters it before it touches the VFS, then moves (movedir for a
\* directory, move with overwrite for a file); after a move that succeeded the VFS
\* has the destination, with what the source held, and no source, and the handle
\* is not in the registry.
C18_MoveClosesThenMoves ==
  [][\A t \in Threads :
       /\ (Calls(t, "MoveFile") /\ th'[t].Context \in DOMAIN files_by_handle)
            => /\ th'[t].pc = "lock"
               /\ th'[t].file = files_by_handle[th'[t].Context].file
               /\ UNCHANGED <<vfs, files_by_handle, streams>>
       /\ (th[t].op = "MoveFile" /\ th[t].pc = "lock" /\ th'[t] # th[t])
            => /\ th'[t].pc = "move"
               /\ streams'[th[t].file].closed
               /\ DOMAIN files_by_handle' = DOMAIN files_by_handle \ {th[t].Context}
               /\ UNCHANGED vfs
       /\ (th[t].op = "MoveFile" /\ th[t].pc = "move" /\ th'[t] # th[t])
            => /\ th'[t].pc = "ret"
               /\ th[t].Context \notin DOMAIN files_by_handle
               /\ th[t].file # 0 => streams[th[t].file].closed
               /\ UNCHANGED <<files_by_handle, streams>>
               /\ IF th'[t].exc = "none" /\ th'[t].ret = STATUS_SUCCESS
                    THEN /\ FsExists(vfs', NewPathOf(th[t]))
                         /\ ~FsExists(vfs', PathOf(th[t]))
                         /\ IF th[t].IsDirectory # 0
                              THEN FsIsDir(vfs, PathOf(th[t])) /\ FsIsDir(vfs', NewPathOf(th[t]))
                              ELSE /\ FsIsFile(vfs, PathOf(th[t]))
                                   /\ vfs'.files[iteratepath(NewPathOf(th[t]))]
                                        = vfs.files[iteratepath(PathOf(th[t]))]
                    ELSE UNCHANGED vfs]_vars
\* a MoveFile through an open handle has moved the file
C18_Witness ==
  \E t \in Threads :
    /\ Returned(t, "MoveFile") /\ th[t].ret = STATUS_SUCCESS /\ th[t].exc = "none"
    /\ th[t].Context >= MinimumFileHandler
    /\ th[t].Context \notin DOMAIN files_by_handle
    /\ streams[th[t].file].closed
    /\ FsIsFile(vfs, NewPathOf(th[t])) /\ ~FsExists(vfs, PathOf(th[t]))

\* some child the VFS lists in the directory is not pending delete
LiveChild(path) ==
  \E nm \in FsListdir(vfs, path) : ~AncestorPending(combine(path, nm))

\* C19: DeleteDirectory of a directory returns STATUS_DIRECTORY_NOT_EMPTY and leaves
\* the pending-delete set alone exactly when the VFS lists a child that is not
\* pending delete; with no child, or with every child pending delete, it adds the
\* directory to the set and returns success; the directory stays in the VFS.
C19_DeleteDirectory ==
  [][\A t \in Threads :
       (Calls(t, "DeleteDirectory") /\ FsIsDir(vfs, HostPath[th'[t].FileName]))
         => /\ th'[t].pc = "ret" /\ th'[t].exc = "none"
            /\ UNCHANGED vfs
            /\ FsIsDir(vfs', HostPath[th'[t].FileName])
            /\ IF LiveChild(HostPath[th'[t].FileName])
                 THEN th'[t].ret = STATUS_DIRECTORY_NOT_EMPTY /\ UNCHANGED pending_delete
                 ELSE /\ th'[t].ret = STATUS_SUCCESS
                      /\ pending_delete' = pending_delete \cup {HostPath[th'[t].FileName]}]_vars
\* a DeleteDirectory has marked a directory whose only child is pending delete
C19_Witness ==
  \E t \in Threads :
    /\ Returned(t, "DeleteDirectory") /\ th[t].ret = STATUS_SUCCESS
    /\ PathOf(th[t]) \in pending_delete
    /\ FsIsDir(vfs, PathOf(th[t]))
    /\ FsListdir(vfs, PathOf(th[t])) # {}

\* the VFS path of each name in each directory the driver names
ChildPath == [fn \in HostPaths |-> [nm \in Names |-> combine(HostPath[fn], nm)]]

\* C20: FindFiles, and FindFilesWithPattern for the names that match, deliver
\* exactly the entries the VFS lists in the directory at the call that are not
\* pending delete, themselves or through an ancestor: an entry created after the
\* mount is delivered by the next call, a pending one never.
C20_FindFilesDelivers ==
  [][\A t \in Threads :
       ((Calls(t, "FindFiles") \/ Calls(t, "FindFilesWithPattern"))
          /\ FsIsDir(vfs, HostPath[th'[t].FileName]))
         => /\ th'[t].pc = "ret" /\ th'[t].exc = "none"
            /\ th'[t].ret = STATUS_SUCCESS
            /\ th'[t].found =
                 {nm \in Names :
                    /\ FsExists(vfs, ChildPath[th'[t].FileName][nm])
                    /\ ~AncestorPending(ChildPath[th'[t].FileName][nm])
                    /\ th'[t].op = "FindFilesWithPattern"
                         => (th'[t].SearchPattern = <<"*">> \/ th'[t].SearchPattern = nm)}
            /\ UNCHANGED <<vfs, pending_delete, files_by_handle>>]_vars
\* a FindFiles of \d has delivered the directory \d\a, made after the file \d\a
\* of the mounted VFS was deleted
C20_Witness ==
  \E t \in Threads :
    /\ Returned(t, "FindFiles") /\ th[t].ret = STATUS_SUCCESS
    /\ th[t].FileName = HostD
    /\ FsIsDir(vfs, dokanpath2pyfs(HostDA))
    /\ <<"a">> \in th[t].found

\* thread t is in a ReadFile or WriteFile that arrived after Cleanup without
\* DeleteOnClose closed the stream of its handle, the file still being there, and
\* takes the step that re-opens it
Reopens(t) ==
  /\ th[t].op \in {"ReadFile", "WriteFile"} /\ th[t].pc = "lock"
  /\ th'[t].pc # "lock"
  /\ slot[th[t].slot].st = "cleaned"
  /\ th[t].Context \in DOMAIN files_by_handle
  /\ streams[files_by_handle[th[t].Context].file].closed
  /\ FsIsFile(vfs, HostPath[th[t].FileName])

\* C21 (as claimed): a ReadFile or WriteFile that arrives after Cleanup without
\* DeleteOnClose and before CloseFile re-opens the file in the recorded mode, binds
\* the new stream to the same handle, and leaves the bytes of the file as they
\* were, whatever disposition the handle was opened with; the read then returns
\* those bytes.
C21_ReopenTransparent ==
  [][\A t \in Threads :
       /\ Reopens(t)
            => /\ th'[t].pc = "io" /\ th'[t].Context = th[t].Context
               /\ DOMAIN files_by_handle' = DOMAIN files_by_handle
               /\ files_by_handle'[th[t].Context].file \notin DOMAIN streams
               /\ ~streams'[files_by_handle'[th[t].Context].file].closed
               /\ streams'[files_by_handle'[th[t].Context].file].mode
                    = streams[files_by_handle[th[t].Context].file].mode
               /\ vfs'.files = vfs.files
       /\ (th[t].op = "ReadFile" /\ th[t].pc = "io" /\ th'[t].pc = "ret"
             /\ slot[th[t].slot].st = "cleaned"
             /\ iteratepath(HostPath[th[t].FileName]) \in DOMAIN quiet.files)
            => /\ th'[t].exc = "none" /\ th'[t].ret = STATUS_SUCCESS
               /\ th'[t].out = ReadAt(quiet.files[iteratepath(HostPath[th[t].FileName])],
                                      th[t].Offset, th[t].Length)]_vars

\* the sizes recorded for the handles that are registered on path p
WrittenSizes(p) ==
  {PathMapGet(files_size_written, p)[h] :
     h \in {g \in DOMAIN files_by_handle :
              /\ iteratepath(files_by_handle[g].path) = iteratepath(p)
              /\ HasSizeEntry(files_size_written, p, g)}}

\* C22: GetFileInformation of an existing path reports the larger of the size the
\* VFS gives and the largest size recorded for a handle registered on the path,
\* the size of the VFS alone when no handle is registered on it, and always
\* nNumberOfLinks = 1; it changes nothing.
C22_ReportedSize ==
  [][\A t \in Threads :
       (Calls(t, "GetFileInformation") /\ FsExists(vfs, HostPath[th'[t].FileName]))
         => LET p == HostPath[th'[t].FileName] IN
            /\ th'[t].pc = "ret" /\ th'[t].exc = "none" /\ th'[t].ret = STATUS_SUCCESS
            /\ th'[t].nNumberOfLinks = 1
            /\ th'[t].nFileSize =
                 IF WrittenSizes(p) = {} THEN FsGetsize(vfs, p)
                 ELSE Max(FsGetsize(vfs, p), MaxOf(WrittenSizes(p)))
            /\ UNCHANGED <<vfs, files_by_handle, files_size_written, pending_delete>>]_vars
\* GetFileInformation has reported more bytes than the VFS holds for the file
C22_Witness ==
  \E t \in Threads :
    /\ Returned(t, "GetFileInformation") /\ th[t].ret = STATUS_SUCCESS
    /\ FsIsFile(vfs, PathOf(th[t]))
    /\ th[t].nFileSize > FsGetsize(vfs, PathOf(th[t]))
    /\ th[t].nNumberOfLinks = 1

\* C23: the size recorded for a handle is 0 when the handle is registered, no
\* step lowers it while the handle stays registered, and a successful WriteFile of
\* n bytes at offset o leaves it at max(previous value, o + n).
C23_SizeWrittenMonotone ==
  [][/\ \A k \in DOMAIN files_size_written' : \A h \in DOMAIN files_size_written'[k] :
          IF k \in DOMAIN files_size_written /\ h \in DOMAIN files_size_written[k]
            THEN files_size_written'[k][h] >= files_size_written[k][h]
            ELSE files_size_written'[k][h] = 0
     /\ \A t \in Threads :
          (/\ th[t].op = "WriteFile" /\ th[t].pc = "io" /\ th'[t].pc = "ret"
           /\ ~th[t].WriteToEndOfFile
           /\ HasSizeEntry(files_size_written, HostPath[th[t].FileName], th[t].Context))
            => LET k == iteratepath(HostPath[th[t].FileName]) IN
               /\ th'[t].exc = "none" /\ th'[t].ret = STATUS_SUCCESS
               /\ files_size_written'[k][th[t].Context]
                    = Max(files_size_written[k][th[t].Context], th[t].Offset + Len(th[t].Data))]_vars
\* a WriteFile below the recorded size has returned and the recorded size stands
C23_Witness ==
  \E t \in Threads :
    /\ Returned(t, "WriteFile") /\ th[t].ret = STATUS_SUCCESS /\ th[t].exc = "none"
    /\ ~th[t].WriteToEndOfFile
    /\ HasSizeEntry(files_size_written, PathOf(th[t]), th[t].Context)
    /\ PathMapGet(files_size_written, PathOf(th[t]))[th[t].Context]
         > th[t].Offset + Len(th[t].Data)

\* C24: the normal form of a host path holds no backslash, and normalizing it again
\* gives the same path.
C24_NormIdempotent ==
  /\ (conv.n >= 1 /\ ~IllegalBackReference(conv.y))
       => \A i \in DOMAIN conv.y : conv.y[i] # BS
  /\ conv.n = 2 => conv.z = conv.y
\* a host path with a backslash and a back reference, normalized twice
C24_Witness ==
  /\ conv.n = 2
  /\ \E i \in DOMAIN conv.x : conv.x[i] = BS
  /\ \E i \in 1..(Len(conv.x) - 1) : conv.x[i] = "." /\ conv.x[i + 1] = "."
  /\ conv.y # ReplaceBS(conv.x)

\* C25 (as claimed): FILETIME (0, 0) converts to the sentinel date-time, the
\* sentinel and None convert to FILETIME (0, 0), a count split into its two halves
\* and recombined is the same count, and every other date-time converts to a
\* FILETIME that converts back to the same date-time.
C25_TimeRoundTrip ==
  /\ (conv.n >= 1 /\ conv.x = FILETIME(0, 0)) => conv.y = DATETIME_ZERO
  /\ (conv.n >= 1 /\ conv.x \in {None, DATETIME_ZERO}) => conv.y = FILETIME(0, 0)
  /\ \A f \in Counts :
       filetime2timestamp(FILETIME(f % DWORD, f \div DWORD)).t + FILETIME_UNIX_EPOCH = f
  /\ (conv.n >= 1 /\ conv.x.type = "datetime" /\ conv.x # DATETIME_ZERO)
       => /\ IsFiletime(conv.y)
          /\ conv.n = 2 => conv.z = conv.x

\* the number of values a trie holds
RECURSIVE CountValues(_)
RECURSIVE SumOver(_, _)
SumOver(m, names) ==
  IF names = {} THEN 0
  ELSE LET nm == CHOOSE x \in names : TRUE
       IN  CountValues(m[nm]) + SumOver(m, names \ {nm})
CountValues(m) ==
  (IF EmptyName \in DOMAIN m THEN 1 ELSE 0) + SumOver(m, DOMAIN m \ {EmptyName})

\* paths p and q have the same normal form
SameKey(p, q) == iteratepath(p) = iteratepath(q)

\* C26: a value stored under path p is found, by get and by contains, under
\* every path with the normal form of p; a value removed or popped under p is
\* found under none of them; and the map holds one value for each normal form
\* under which it holds one, never two.
C26_PathMapNormalizes ==
  /\ pm.last.op = "set"
       => \A q \in MapPaths :
            SameKey(q, pm.last.path)
              => contains(pm.map, q) /\ getitem(pm.map, q) = pm.last.value
  /\ (pm.last.op \in {"del", "pop"} /\ ~pm.last.raised)
       => \A q \in MapPaths : SameKey(q, pm.last.path) => ~contains(pm.map, q)
  /\ \A p, q \in MapPaths :
       (SameKey(p, q) /\ contains(pm.map, p))
         => contains(pm.map, q) /\ getitem(pm.map, q) = getitem(pm.map, p)
  /\ CountValues(pm.map)
       = Cardinality({iteratepath(p) : p \in {q \in MapPaths : contains(pm.map, q)}})
\* hello/world was stored as /hello/there/../world, and its parent holds another value
C26_Witness ==
  /\ pm.last.op = "set"
  /\ pm.last.path = <<"/", "a", "/", "c", "/", ".", ".", "/", "b">>
  /\ contains(pm.map, <<"a", "/", "b">>) /\ getitem(pm.map, <<"a", "/", "b">>) = 42
  /\ contains(pm.map, <<"a">>) /\ getitem(pm.map, <<"a">>) = 41

\* C27: a wrapped callback that leaves has set its finished flag, and the watcher
\* sends a reset only for the record it holds and only when the flag of that record
\* is not set at the time of the reset; for a record whose flag is set it sends
\* nothing and does not queue the record again.
C27_NoResetAfterFinished ==
  [][/\ \A r \in Records : (r \in running /\ r \notin running') => finished'[r]
     /\ \A r \in Records : (~finished[r] /\ finished'[r]) => r \in running
     /\ (protect_thread.pc = "lock" /\ protect_thread'.pc # "lock")
          => /\ \A r \in Records :
                  resets'[r] # resets[r]
                    => r = protect_thread.rec /\ ~finished[r] /\ r \in running
             /\ finished[protect_thread.rec] => UNCHANGED <<resets, protect_queue>>]_vars
\* the callback of the record the watcher holds finished during the watcher's sleep,
\* after an earlier reset
C27_Witness ==
  /\ protect_thread.pc = "lock"
  /\ finished[protect_thread.rec]
  /\ protect_thread.rec \notin running
  /\ resets[protect_thread.rec] = 1

\* record r is in the queue of the watcher
Queued(r) == \E i \in DOMAIN protect_queue : protect_queue[i].id = r

\* C28: at most one watcher thread is ever started, and every record in the queue
\* is eventually popped by the watcher.
C28_OneWatcher ==
  /\ [](threads_started <= 1)
  /\ [](protect_queue # <<>> => protect_thread.pc \notin {"none", "wait"})
  /\ \A r \in Records : Queued(r) ~> (protect_thread.rec = r)
\* two wrappers have both seen that there is no watcher thread, and one of them
\* has started it
C28_Witness ==
  /\ threads_started = 1
  /\ \E r \in Records : wrapper[r] = "start"
  /\ \E r \in Records : wrapper[r] = "append"

\* C29 (as claimed): no thread holds the lock of a handle and the registry mutex
\* at the same time.
C29_LocksNeverNested ==
  \A t \in Threads : ~(files_lock = t /\ \E h \in Handles : op_mutex[h] = t)

\* thread t makes a step that reads the handle table or the size table: _get_file
\* in Cleanup and CloseFile, the sizes in GetFileInformation
ReadsTables(t) ==
  Calls(t, "GetFileInformation") \/ Calls(t, "Cleanup") \/ Calls(t, "CloseFile")

\* C30 (as claimed): a callback reads the tables of the registry only under the
\* registry mutex, hence never while another thread is inside a section of that
\* mutex, and GetFileInformation never finds a path of the size table whose set of
\* handles is empty.
C30_TablesUnderMutex ==
  [][\A t \in Threads :
       /\ ReadsTables(t) => files_lock = 0
       /\ Calls(t, "GetFileInformation")
            => /\ \A k \in DOMAIN files_size_written : DOMAIN files_size_written[k] # {}
               /\ th'[t].exc = "none"]_vars

\* the time handed to the callback is the sentinel (low = 0, high = 0)
Sentinel(ft) == ft = FILETIME(0, 0)

\* C31 (as claimed): SetFileTime never lets a sentinel (0,0) time overwrite the
\* timestamp of the backend it stands for; it returns success when settimes raises
\* Unsupported, and the mapped status of any other error settimes raises.
C31_SetFileTime ==
  [][\A t \in Threads :
       Calls(t, "SetFileTime") =>
         LET c == th'[t]
             k == iteratepath(HostPath[c.FileName])
         IN  /\ c.exc = "none"
             /\ c.fserr \in {"none", "Unsupported"} => c.ret = STATUS_SUCCESS
             /\ c.fserr \notin {"none", "Unsupported"}
                  => c.ret = handle_fs_errors(c.fserr) /\ times' = times
             /\ (c.fserr = "none" /\ Sentinel(c.LastAccessTime))
                  => times'[k].accessed = times[k].accessed
             /\ (c.fserr = "none" /\ Sentinel(c.LastWriteTime))
                  => times'[k].modified = times[k].modified]_vars

\* stream sid is the registered stream of a handle, or the local variable "file"
\* of a callback that has not returned
Referenced(sid) ==
  \/ \E h \in DOMAIN files_by_handle : files_by_handle[h].file = sid
  \/ \E t \in Threads : th[t].pc \notin {"idle", "ret"} /\ th[t].file = sid

\* C32 (as claimed): under every interleaving of ReadFile, WriteFile, Cleanup and
\* CloseFile on one handle the re-registration of a reopened stream finds the
\* handle in the registry with a closed stream (neither the assertion of
\* _rereg_file nor its lookup fails), and no stream is left open without a
\* reference to it.
C32_RebindSafe ==
  /\ \A t \in Threads :
       th[t].op \in {"ReadFile", "WriteFile"} => th[t].exc \notin {"AssertionError", "KeyError"}
  /\ \A sid \in DOMAIN streams : ~streams[sid].closed => Referenced(sid)

\* thread t holds the lock of some handle
HoldsOpMutex(t) == \E h \in Handles : op_mutex[h] = t
\* thread t is blocked in, or about to call, the acquire of the lock of its handle
WaitsOpMutex(t) == th[t].pc = "lock"
\* thread t is about to enter a section of the registry mutex
WaitsFilesLock(t) == th[t].pc \in {"reg", "check", "rereg", "del"}

\* C33: callbacks cannot deadlock on the locks of the adapter.  Where two locks
\* are nested the lock of the handle is taken first and the registry mutex
\* second; no thread waits for the lock of a handle while it holds the registry
\* mutex; no thread acquires a lock it already holds; the watcher lock is held
\* neither by a thread that holds or waits for one of the other two, nor by the
\* watcher for ever; a thread steps only where it can; and every callback that
\* was delivered returns and leaves the wrapper.
C33_NoDeadlock ==
  /\ [](\A t \in Threads :
          /\ files_lock = t => ~WaitsOpMutex(t) /\ ~WaitsFilesLock(t)
          /\ WaitsOpMutex(t) => ~HoldsOpMutex(t)
          /\ protect_lock = t
               => ~HoldsOpMutex(t) /\ files_lock # t /\ th[t].pc \in {"idle", "ret"})
  /\ [][\A t \in Threads :
          /\ (~HoldsOpMutex(t) /\ HoldsOpMutex(t)') => files_lock # t /\ files_lock' # t
          /\ (files_lock # t /\ files_lock' = t /\ HoldsOpMutex(t)') => HoldsOpMutex(t)]_vars
  /\ [][\A t \in Threads : CallbackStep(t) => CanStep(t)]_vars
  /\ \A t \in Threads :
       /\ (wrapped[t] = "enter") ~> (wrapped[t] = "in")
       /\ (th[t].pc # "idle") ~> (th[t].pc = "ret" /\ wrapped[t] = "out")

\* one thread is inside _del_file with the lock of the handle and the registry
\* mutex, the other waits for the lock of that handle in ReadFile, and both get out
C33_Witness ==
  \E t1, t2 \in Threads :
    /\ files_lock = t1 /\ HoldsOpMutex(t1)
    /\ th[t2].op = "ReadFile" /\ WaitsOpMutex(t2) /\ op_mutex[th[t2].Context] = t1

\* the handles the registry holds under path p (a list of components)
RegisteredAt(p) ==
  {h \in DOMAIN files_by_handle : iteratepath(files_by_handle[h].path) = p}
\* the paths some registered handle has
RegisteredPaths == {iteratepath(files_by_handle[h].path) : h \in DOMAIN files_by_handle}

\* C34: whenever the registry mutex is free the size table has an entry (path, h)
\* exactly for each handle h registered with that path, and no path with an
\* empty set of handles, whatever ZwCreateFile, Cleanup, CloseFile and MoveFile
\* have done, several handles of one path included.
C34_SizeTableAgrees ==
  files_lock = 0 =>
    /\ DOMAIN files_size_written = RegisteredPaths
    /\ \A p \in DOMAIN files_size_written :
         /\ DOMAIN files_size_written[p] = RegisteredAt(p)
         /\ DOMAIN files_size_written[p] # {}

\* two handles were registered on one path and one of them has been
\* unregistered: the path keeps the entry of the other
C34_Witness ==
  /\ files_lock = 0
  /\ Len(issued) = 2
  /\ \E p \in DOMAIN files_size_written :
       /\ Cardinality(DOMAIN files_size_written[p]) = 1
       /\ \A i \in 1..2 : issued[i] \in DOMAIN files_size_written[p] \/ issued[i] \notin DOMAIN files_by_handle
  /\ Cardinality(DOMAIN files_by_handle) = 1

\* C35 (as claimed): every lock of the byte-range lock table is owned by a
\* handle that is registered: no lock of an unregistered handle stays in the table.
C35_LocksOwned ==
  \A k \in DOMAIN active_locks :
    \A i \in DOMAIN active_locks[k] : active_locks[k][i][1] \in DOMAIN files_by_handle

\* a GetFileInformation that succeeds reports the size the file has
ReportsActualSize ==
  \A t \in Threads :
    (th[t].pc = "idle" /\ th'[t].op = "GetFileInformation" /\ th'[t].pc = "ret"
       /\ th'[t].exc = "none" /\ th'[t].ret = STATUS_SUCCESS)
      => th'[t].nFileSize = FsGetsize(vfs, dokanpath2pyfs(th'[t].FileName))

\* a SetEndOfFile that succeeds leaves the file AllocSize bytes long and the
\* position of the stream at the smaller of AllocSize and where it was
PositionAfterSetEnd ==
  \A t \in Threads :
    (th[t].op = "SetEndOfFile" /\ th[t].pc = "lock" /\ th'[t].pc = "ret"
       /\ th'[t].exc = "none" /\ streams[th[t].file].key \in DOMAIN vfs.files)
      => /\ Len(StreamBytes(vfs', streams'[th[t].file])) = th[t].AllocSize
         /\ streams'[th[t].file].pos = Min(streams[th[t].file].pos, th[t].AllocSize)

\* C36 (as claimed): after a truncation, GetFileInformation never reports more
\* than the size of the file: once SetEndOfFile has shrunk a file below what a
\* handle wrote, the size reported is the new one; and SetEndOfFile leaves the
\* position of the stream at the smaller of its previous position and the new size.
C36_SetEndOfFile == [][ReportsActualSize /\ PositionAfterSetEnd]_vars
====
